---- MODULE Spec2Model ----
(***************************************************************************)
(* Model of the caches-rs single-tier LRU engine (RawLRU, src/src/raw.rs)  *)
(* and of the layered 2Q cache built from three such engines               *)
(* (TwoQueueCache, src/src/two_queue.rs).                                  *)
(*                                                                         *)
(* An engine is a record                                                   *)
(*   map      : key -> address of the boxed EntryNode the map owns         *)
(*   cap      : the capacity field                                         *)
(*   on_evict : TRUE iff the engine was built with Some(callback)          *)
(*   node     : the heap cells of the engine, address -> EntryNode, i.e.   *)
(*              the two sigil nodes and every box reachable from the map   *)
(* Addresses are integers: HEAD and TAIL are the sigils, and the box that  *)
(* holds key k is named NodeOf(k).  Reusing the storage of an evicted node *)
(* for a new key (RawLRU::put) therefore shows as a change of name.        *)
(***************************************************************************)
EXTENDS Integers, Sequences, FiniteSets, TLC

(***************************************************************************)
(* Bounds of the model.                                                    *)
(***************************************************************************)
MaxKey == 3
MaxCap == 3

Keys == 1..MaxKey
\* values are opaque to both caches: two of them tell an old value from a new one
Vals == {1, 2}
Caps == 0..MaxCap

(***************************************************************************)
(* Addresses and the contents of uninitialised memory.  UNINIT stands for  *)
(* every bit pattern that is none of the values named here: read as a key  *)
(* or a value it is no key and no value of the model, read as a pointer it *)
(* is not null, no sigil and no box the engine ever allocated.             *)
(***************************************************************************)
HEAD == 0
TAIL == 1
NULL == -1
UNINIT == -2

NodeOf(k) == k + 1

EmptyMap == [x \in {} |-> 0]

Restrict(f, S) == [x \in S |-> f[x]]

(***************************************************************************)
(* Results.  Every result has the same three fields so that results of     *)
(* different shapes can be compared.                                       *)
(***************************************************************************)
Res(tag, key, value) == [tag |-> tag, key |-> key, value |-> value]
None == Res("None", 0, 0)
Some(v) == Res("Some", 0, v)
SomePair(k, v) == Res("SomePair", k, v)
PutResult_Put == Res("Put", 0, 0)
PutResult_Update(v) == Res("Update", 0, v)
PutResult_Evicted(k, v) == Res("Evicted", k, v)
Bool(b) == Res(IF b THEN "true" ELSE "false", 0, 0)
Count(n) == Res("Count", 0, n)
Unit == Res("Unit", 0, 0)
Ok == Res("Ok", 0, 0)
InvalidSize(n) == Res("InvalidSize", 0, n)
InvalidRecentRatio(r) == Res("InvalidRecentRatio", 0, r)
InvalidGhostRatio(r) == Res("InvalidGhostRatio", 0, r)
Panic == Res("panic", 0, 0)
(* The process was killed by a signal inside the call: nothing unwinds, no *)
(* destructor runs and nothing runs afterwards.                            *)
Killed == Res("killed", 0, 0)

(* What an engine operation yields: the engine afterwards, the value it    *)
(* returns, the notifications it fired (oldest first) and whether it       *)
(* panicked.                                                               *)
Out(e, res, ev, panic) == [e |-> e, res |-> res, ev |-> ev, panic |-> panic]

(***************************************************************************)
(* EntryNode                                                               *)
(***************************************************************************)
EntryNode_new(key, val) == [key |-> key, val |-> val, prev |-> NULL, next |-> NULL]

new_sigil == [key |-> UNINIT, val |-> UNINIT, prev |-> NULL, next |-> NULL]

(* Mutant of check_size: every size is accepted.                           *)
check_size_lax(size) == Ok

check_size(size) == IF size = 0 THEN InvalidSize(0) ELSE Ok

(***************************************************************************)
(* RawLRU: construction and the pure queries                               *)
(***************************************************************************)
construct(c, cb) ==
    [map |-> EmptyMap,
     cap |-> c,
     on_evict |-> cb,
     node |-> (HEAD :> [new_sigil EXCEPT !.next = TAIL])
              @@ (TAIL :> [new_sigil EXCEPT !.prev = HEAD])]

(* The value of an engine variable before any constructor has succeeded:   *)
(* nothing is allocated.                                                   *)
Unbuilt == [map |-> EmptyMap, cap |-> 0, on_evict |-> FALSE, node |-> EmptyMap]

Built(e) == HEAD \in DOMAIN e.node

len(e) == Cardinality(DOMAIN e.map)

is_empty(e) == len(e) = 0

cap(e) == e.cap

contains(e, k) == k \in DOMAIN e.map

(***************************************************************************)
(* Ownership of boxes: taking a box out of the map leaves its cell alive   *)
(* until the box is dropped or handed on.                                  *)
(***************************************************************************)
map_remove(e, k) == [e EXCEPT !.map = Restrict(e.map, DOMAIN e.map \ {k})]

map_insert(e, k, n) == [e EXCEPT !.map = (k :> n) @@ e.map]

alloc(e, n, cell) == [e EXCEPT !.node = (n :> cell) @@ e.node]

drop_box(e, n) == [e EXCEPT !.node = Restrict(e.node, DOMAIN e.node \ {n})]

(***************************************************************************)
(* The intrusive list                                                      *)
(***************************************************************************)
detach(e, n) ==
    LET h1 == [e.node EXCEPT ![e.node[n].prev].next = e.node[n].next]
        h2 == [h1 EXCEPT ![h1[n].next].prev = h1[n].prev]
    IN  [e EXCEPT !.node = h2]

(* Mutant of attach: the node that follows is not linked back.             *)
attach_oneway(e, n) ==
    LET h1 == [e.node EXCEPT ![n].next = e.node[HEAD].next]
        h2 == [h1 EXCEPT ![n].prev = HEAD]
        h3 == [h2 EXCEPT ![HEAD].next = n]
    IN  [e EXCEPT !.node = h3]

attach(e, n) ==
    LET h1 == [e.node EXCEPT ![n].next = e.node[HEAD].next]
        h2 == [h1 EXCEPT ![n].prev = HEAD]
        h3 == [h2 EXCEPT ![HEAD].next = n]
        h4 == [h3 EXCEPT ![h3[n].next].prev = n]
    IN  [e EXCEPT !.node = h4]

(* Mutant of cb: the callback is called twice.                             *)
cb_twice(e, k, v) == IF e.on_evict THEN << <<k, v>>, <<k, v>> >> ELSE << >>

cb(e, k, v) == IF e.on_evict THEN << <<k, v>> >> ELSE << >>

(***************************************************************************)
(* RawLRU::put, one operator for each arm of the match.                    *)
(***************************************************************************)
(* Mutant of put_update: the new value is not stored.                      *)
put_update_stale(e, k, v) ==
    LET node_ptr == e.map[k]
        old == e.node[node_ptr].val
    IN  Out(attach(detach(e, node_ptr), node_ptr), PutResult_Update(old), << >>, FALSE)

(* Some(node_ptr): swap the value in and move the node to the front.       *)
put_update(e, k, v) ==
    LET node_ptr == e.map[k]
        old == e.node[node_ptr].val
        e1 == [e EXCEPT !.node[node_ptr].val = v]
    IN  Out(attach(detach(e1, node_ptr), node_ptr), PutResult_Update(old), << >>, FALSE)

(* Mutant of put_evict: the node reused is the first of the list, the most *)
(* recently used one.                                                      *)
put_evict_mru(e, k, v) ==
    LET old_key == e.node[e.node[HEAD].next].key
    IN  IF old_key \notin DOMAIN e.map
        THEN Out(e, Res("undefined", 0, 0), << >>, TRUE)
        ELSE LET old_node == e.map[old_key]
                 old_val == e.node[old_node].val
                 e1 == map_remove(e, old_key)
                 e2 == detach(e1, old_node)
                 e3 == alloc(drop_box(e2, old_node), NodeOf(k),
                             [e2.node[old_node] EXCEPT !.key = k, !.val = v])
                 e4 == attach(e3, NodeOf(k))
             IN  Out(map_insert(e4, k, NodeOf(k)),
                     PutResult_Evicted(old_key, old_val),
                     cb(e, old_key, old_val), FALSE)

(* None, full: reuse the last node.  old_key is read through               *)
(* the prev field of the tail sigil; on an empty list that is the head     *)
(* sigil, whose key                                                        *)
(* is uninitialised, and map.remove hashes it.  That read is undefined:    *)
(* the map is empty, so either map.remove yields None and unwrap panics,   *)
(* or the hashing of the bytes read faults and the process is killed.  The *)
(* result is marked undefined here and the call that made the put takes    *)
(* one of the two outcomes.  In both the engine is left as it was and the  *)
(* program goes no further.                                                *)
put_evict(e, k, v) ==
    LET old_key == e.node[e.node[TAIL].prev].key
    IN  IF old_key \notin DOMAIN e.map
        THEN Out(e, Res("undefined", 0, 0), << >>, TRUE)
        ELSE LET old_node == e.map[old_key]
                 old_val == e.node[old_node].val
                 e1 == map_remove(e, old_key)
                 \* mem::swap of key and value into the old node, which is
                 \* from now on named after the key it holds
                 e2 == detach(e1, old_node)
                 e3 == alloc(drop_box(e2, old_node), NodeOf(k),
                             [e2.node[old_node] EXCEPT !.key = k, !.val = v])
                 e4 == attach(e3, NodeOf(k))
             IN  Out(map_insert(e4, k, NodeOf(k)),
                     PutResult_Evicted(old_key, old_val),
                     cb(e, old_key, old_val), FALSE)

(* None, not full: allocate a new EntryNode.                               *)
put_insert(e, k, v) ==
    LET node_ptr == NodeOf(k)
        e1 == alloc(e, node_ptr, EntryNode_new(k, v))
        e2 == attach(e1, node_ptr)
    IN  Out(map_insert(e2, k, node_ptr), PutResult_Put, << >>, FALSE)

(* Mutant of put: the last node is reused only once the engine is over    *)
(* its capacity.                                                           *)
put_over(e, k, v) ==
    IF k \in DOMAIN e.map
    THEN put_update(e, k, v)
    ELSE IF len(e) > cap(e)
    THEN put_evict(e, k, v)
    ELSE put_insert(e, k, v)

put(e, k, v) ==
    IF k \in DOMAIN e.map
    THEN put_update(e, k, v)
    ELSE IF len(e) >= cap(e)
    THEN put_evict(e, k, v)
    ELSE put_insert(e, k, v)

(***************************************************************************)
(* RawLRU lookups                                                          *)
(***************************************************************************)
(* Mutant of get: the node found is not moved to the front.                *)
get_unmoved(e, k) ==
    IF k \in DOMAIN e.map
    THEN Out(e, Some(e.node[e.map[k]].val), << >>, FALSE)
    ELSE Out(e, None, << >>, FALSE)

get(e, k) ==
    IF k \in DOMAIN e.map
    THEN LET node_ptr == e.map[k]
         IN  Out(attach(detach(e, node_ptr), node_ptr), Some(e.node[node_ptr].val), << >>, FALSE)
    ELSE Out(e, None, << >>, FALSE)

get_mut(e, k) ==
    IF k \in DOMAIN e.map
    THEN LET node_ptr == e.map[k]
         IN  Out(attach(detach(e, node_ptr), node_ptr), Some(e.node[node_ptr].val), << >>, FALSE)
    ELSE Out(e, None, << >>, FALSE)

(* Mutant of get_lru: the last node is returned where it stands.           *)
get_lru_unmoved(e) ==
    IF is_empty(e)
    THEN Out(e, None, << >>, FALSE)
    ELSE LET node == e.node[TAIL].prev
         IN  Out(e, SomePair(e.node[node].key, e.node[node].val), << >>, FALSE)

get_lru(e) ==
    IF is_empty(e)
    THEN Out(e, None, << >>, FALSE)
    ELSE LET node == e.node[TAIL].prev
         IN  Out(attach(detach(e, node), node),
                 SomePair(e.node[node].key, e.node[node].val), << >>, FALSE)

get_lru_mut(e) ==
    IF is_empty(e)
    THEN Out(e, None, << >>, FALSE)
    ELSE LET node == e.node[TAIL].prev
         IN  Out(attach(detach(e, node), node),
                 SomePair(e.node[node].key, e.node[node].val), << >>, FALSE)

(* Mutant of peek: the node found is moved to the front, as get does.      *)
peek_moved(e, k) ==
    IF k \in DOMAIN e.map
    THEN LET node_ptr == e.map[k]
         IN  Out(attach(detach(e, node_ptr), node_ptr), Some(e.node[node_ptr].val), << >>, FALSE)
    ELSE Out(e, None, << >>, FALSE)

peek(e, k) ==
    IF k \in DOMAIN e.map
    THEN Out(e, Some(e.node[e.map[k]].val), << >>, FALSE)
    ELSE Out(e, None, << >>, FALSE)

peek_mut(e, k) ==
    IF k \in DOMAIN e.map
    THEN Out(e, Some(e.node[e.map[k]].val), << >>, FALSE)
    ELSE Out(e, None, << >>, FALSE)

peek_lru(e) ==
    IF is_empty(e)
    THEN Out(e, None, << >>, FALSE)
    ELSE LET node == e.node[TAIL].prev
         IN  Out(e, SomePair(e.node[node].key, e.node[node].val), << >>, FALSE)

peek_lru_mut(e) ==
    IF is_empty(e)
    THEN Out(e, None, << >>, FALSE)
    ELSE LET node == e.node[TAIL].prev
         IN  Out(e, SomePair(e.node[node].key, e.node[node].val), << >>, FALSE)

(***************************************************************************)
(* RawLRU removals                                                         *)
(***************************************************************************)
(* Mutant of remove: the callback is not called.                           *)
remove_silent(e, k) ==
    IF k \notin DOMAIN e.map
    THEN Out(e, None, << >>, FALSE)
    ELSE LET node_ptr == e.map[k]
             e1 == map_remove(e, k)
             e2 == detach(e1, node_ptr)
             val == e2.node[node_ptr].val
         IN  Out(drop_box(e2, node_ptr), Some(val), << >>, FALSE)

remove(e, k) ==
    IF k \notin DOMAIN e.map
    THEN Out(e, None, << >>, FALSE)
    ELSE LET node_ptr == e.map[k]
             e1 == map_remove(e, k)
             e2 == detach(e1, node_ptr)
             val == e2.node[node_ptr].val
         IN  Out(drop_box(e2, node_ptr), Some(val), cb(e, e2.node[node_ptr].key, val), FALSE)

(* remove_last hands the detached box to its caller: res carries the key   *)
(* and value the box holds, and the cell is still in the heap.             *)
(* Mutant of remove_last: the entry after the head sigil, the most recent  *)
(* one, is taken instead of the one before the tail sigil.                 *)
remove_last_head(e) ==
    LET first == e.node[HEAD].next
    IN  IF first # TAIL
        THEN LET old_key == e.node[first].key
             IN  IF old_key \notin DOMAIN e.map
                 THEN Out(e, Panic, << >>, TRUE)
                 ELSE LET node_ptr == e.map[old_key]
                          e1 == map_remove(e, old_key)
                      IN  Out(detach(e1, node_ptr),
                              SomePair(old_key, e.node[node_ptr].val), << >>, FALSE)
        ELSE Out(e, None, << >>, FALSE)

remove_last(e) ==
    LET prev == e.node[TAIL].prev
    IN  IF prev # HEAD
        THEN LET old_key == e.node[prev].key
             IN  IF old_key \notin DOMAIN e.map
                 THEN Out(e, Panic, << >>, TRUE)
                 ELSE LET node_ptr == e.map[old_key]
                          e1 == map_remove(e, old_key)
                      IN  Out(detach(e1, node_ptr),
                              SomePair(old_key, e.node[node_ptr].val), << >>, FALSE)
        ELSE Out(e, None, << >>, FALSE)

(* Mutant of remove_lru: the entry taken is the first of the list.         *)
remove_lru_first(e) ==
    LET first == e.node[HEAD].next
    IN  IF first = TAIL
        THEN Out(e, None, << >>, FALSE)
        ELSE LET k == e.node[first].key
                 v == e.node[first].val
             IN  Out(drop_box(detach(map_remove(e, k), first), first),
                     SomePair(k, v), cb(e, k, v), FALSE)

remove_lru(e) ==
    LET r == remove_last(e)
    IN  IF r.panic \/ r.res = None
        THEN r
        ELSE Out(drop_box(r.e, NodeOf(r.res.key)), r.res,
                 cb(e, r.res.key, r.res.value), FALSE)

(* Mutant of resize_loop: the loop runs while the map is not below the     *)
(* new capacity.                                                           *)
RECURSIVE resize_loop_eager(_, _, _, _)
resize_loop_eager(e, c, evicted, ev) ==
    IF len(e) >= c /\ len(e) > 0
    THEN LET r == remove_lru(e)
         IN  IF r.panic
             THEN Out(r.e, Panic, ev, TRUE)
             ELSE resize_loop_eager(r.e, c, evicted + 1, ev \o r.ev)
    ELSE Out([e EXCEPT !.cap = c], Count(evicted), ev, FALSE)

RECURSIVE resize_loop(_, _, _, _)
resize_loop(e, c, evicted, ev) ==
    IF len(e) > c
    THEN LET r == remove_lru(e)
         IN  IF r.panic
             THEN Out(r.e, Panic, ev, TRUE)
             ELSE resize_loop(r.e, c, evicted + 1, ev \o r.ev)
    ELSE Out([e EXCEPT !.cap = c], Count(evicted), ev, FALSE)

(* Mutant of resize: the capacity is left as it was.                       *)
resize_keepcap(e, c) ==
    IF c = e.cap
    THEN Out(e, Count(0), << >>, FALSE)
    ELSE LET r == resize_loop(e, c, 0, << >>)
         IN  Out([r.e EXCEPT !.cap = e.cap], r.res, r.ev, r.panic)

resize(e, c) ==
    IF c = e.cap
    THEN Out(e, Count(0), << >>, FALSE)
    ELSE resize_loop(e, c, 0, << >>)

RECURSIVE purge_loop(_, _)
purge_loop(e, ev) ==
    LET r == remove_lru(e)
    IN  IF r.panic
        THEN Out(r.e, Panic, ev, TRUE)
        ELSE IF r.res = None
        THEN Out(r.e, Unit, ev, FALSE)
        ELSE purge_loop(r.e, ev \o r.ev)

(* Mutant of purge: remove_lru is called once.                             *)
purge_once(e) ==
    LET r == remove_lru(e)
    IN  Out(r.e, IF r.panic THEN Panic ELSE Unit, r.ev, r.panic)

purge(e) == purge_loop(e, << >>)

(***************************************************************************)
(* The four constructors of RawLRU.                                        *)
(***************************************************************************)
RawLRU_new(c) ==
    IF check_size(c) = Ok
    THEN Out(construct(c, FALSE), Ok, << >>, FALSE)
    ELSE Out(Unbuilt, check_size(c), << >>, FALSE)

with_hasher(c) ==
    IF check_size(c) = Ok
    THEN Out(construct(c, FALSE), Ok, << >>, FALSE)
    ELSE Out(Unbuilt, check_size(c), << >>, FALSE)

with_on_evict_cb(c) ==
    IF check_size(c) = Ok
    THEN Out(construct(c, TRUE), Ok, << >>, FALSE)
    ELSE Out(Unbuilt, check_size(c), << >>, FALSE)

with_hasher_and_on_evict_cb(c) ==
    IF check_size(c) = Ok
    THEN Out(construct(c, TRUE), Ok, << >>, FALSE)
    ELSE Out(Unbuilt, check_size(c), << >>, FALSE)

(***************************************************************************)
(* Reading an engine: the keys from most to least recently used, found by  *)
(* following next from the head sigil.                                     *)
(***************************************************************************)
RECURSIVE walk(_, _, _)
walk(e, n, fuel) ==
    IF n = TAIL \/ fuel = 0 \/ n \notin DOMAIN e.node
    THEN << >>
    ELSE <<e.node[n].key>> \o walk(e, e.node[n].next, fuel - 1)

order(e) == IF Built(e) THEN walk(e, e.node[HEAD].next, MaxKey + 1) ELSE << >>

valueOf(e, k) == e.node[e.map[k]].val

(* A list of keys with one key taken out, the others in their order.       *)
Without(seq, k) == LET keep(x) == x # k IN SelectSeq(seq, keep)

(* What remove_lru returns when called again and again with nothing in     *)
(* between, up to the first None, and the engine that is left.             *)
RECURSIVE Drain(_, _)
Drain(e, fuel) ==
    LET r == remove_lru(e)
    IN  IF fuel = 0 \/ r.panic \/ r.res = None
        THEN [out |-> << >>, e |-> r.e]
        ELSE LET d == Drain(r.e, fuel - 1)
             IN  [out |-> <<r.res>> \o d.out, e |-> d.e]

(* Puts of keys from S, in any order, return Put for as long as the engine *)
(* is below its capacity.                                                  *)
RECURSIVE PutsUntilFull(_, _)
PutsUntilFull(e, S) ==
    \/ len(e) >= cap(e)
    \/ \A j \in S :
          LET r == put(e, j, 1)
          IN  r.res = PutResult_Put /\ len(r.e) = len(e) + 1
              /\ PutsUntilFull(r.e, S \ {j})

Reverse(seq) == [i \in 1..Len(seq) |-> seq[Len(seq) + 1 - i]]

(* The (key, value) pairs of an engine from most to least recently used.   *)
pairs(e) == [i \in 1..Len(order(e)) |-> <<order(e)[i], valueOf(e, order(e)[i])>>]

(* The entries of e that are no longer in e2.                              *)
Departed(e, e2) ==
    {pairs(e)[i] : i \in {j \in 1..Len(pairs(e)) : pairs(e)[j][1] \notin DOMAIN e2.map}}

(***************************************************************************)
(* Crate-internal helpers of RawLRU that TwoQueueCache calls to move a box *)
(* from one engine to another.  A box in transit is the EntryNode cell.    *)
(***************************************************************************)
(* put_box: link an existing box at the head; a full engine first drops    *)
(* its own tail, without notification.                                     *)
put_box(e, ent) ==
    LET k == ent.key
        link(e0) == map_insert(attach(alloc(e0, NodeOf(k), ent), NodeOf(k)), k, NodeOf(k))
    IN  IF len(e) >= cap(e)
        THEN LET r == remove_last(e)
             IN  IF r.panic \/ r.res = None
                 THEN Out(e, Panic, << >>, TRUE)
                 ELSE Out(link(drop_box(r.e, NodeOf(r.res.key))),
                          PutResult_Evicted(r.res.key, r.res.value), << >>, FALSE)
        ELSE Out(link(e), PutResult_Put, << >>, FALSE)

(* remove_and_return_ent: unlink the box of key k and hand it over, no     *)
(* notification.  The cell stays in the heap for the caller to take.       *)
remove_and_return_ent(e, k) ==
    IF k \notin DOMAIN e.map
    THEN Out(e, None, << >>, FALSE)
    ELSE LET node_ptr == e.map[k]
         IN  Out(detach(map_remove(e, k), node_ptr),
                 SomePair(k, e.node[node_ptr].val), << >>, FALSE)

(* remove_lru_in: unlink the tail box and hand it over, no notification.   *)
remove_lru_in(e) == remove_last(e)

(* The box an engine operation handed over, and the engine once the box    *)
(* has left it.                                                            *)
taken(r) == r.e.node[NodeOf(r.res.key)]

given(r) == drop_box(r.e, NodeOf(r.res.key))

(***************************************************************************)
(* TwoQueueCache.  Ratios are counted in quarters: rr = 1 is 0.25, the     *)
(* products and floors below are then exact, as they are in f64 for these  *)
(* operands.                                                               *)
(***************************************************************************)
MaxSize == 2

(* The keys of the calls that fill the ghost engine: enough of them to     *)
(* hold a ghost engine of capacity MaxSize full beside a full budget and   *)
(* still put a key that is in no tier.                                     *)
MaxGhostKey == 5

Ratios == {-1, 0, 1, 2, 4, 5}

floor_mul(size, r) == (size * r) \div 4

UnbuiltTQ ==
    [size |-> 0, recent_size |-> 0,
     recent |-> Unbuilt, frequent |-> Unbuilt, recent_evict |-> Unbuilt]

BuiltTQ(c) == Built(c.recent)

TQOut(c, res, panic) == [c |-> c, res |-> res, panic |-> panic]

with_2q_parameters(size, rr, gr) ==
    IF size = 0
    THEN TQOut(UnbuiltTQ, InvalidSize(size), FALSE)
    ELSE IF rr < 0 \/ rr > 4
    THEN TQOut(UnbuiltTQ, InvalidRecentRatio(rr), FALSE)
    ELSE IF gr < 0 \/ gr > 4
    THEN TQOut(UnbuiltTQ, InvalidGhostRatio(gr), FALSE)
    ELSE LET rs == floor_mul(size, rr)
             es == floor_mul(size, gr)
             recent == RawLRU_new(size)
             freq == RawLRU_new(size)
             recent_evict == RawLRU_new(es)
         IN  IF recent_evict.res # Ok
             THEN TQOut(UnbuiltTQ, recent_evict.res, FALSE)
             ELSE TQOut([size |-> size, recent_size |-> rs,
                         recent |-> recent.e, frequent |-> freq.e,
                         recent_evict |-> recent_evict.e], Ok, FALSE)

(* ensure_space, second arm: recent is over its quota, its tail goes to    *)
(* the ghost engine.                                                       *)
ensure_space_demote(c) ==
    LET r == remove_lru_in(c.recent)
    IN  IF r.panic \/ r.res = None
        THEN TQOut(c, Panic, TRUE)
        ELSE LET g == put_box(c.recent_evict, taken(r))
             IN  TQOut([c EXCEPT !.recent = given(r), !.recent_evict = g.e],
                       IF g.panic THEN Panic ELSE Unit, g.panic)

(* ensure_space, last statement: self.frequent.remove_lru(), result unused *)
ensure_space_evict(c) ==
    LET r == remove_lru(c.frequent)
    IN  TQOut([c EXCEPT !.frequent = r.e], IF r.panic THEN Panic ELSE Unit, r.panic)

(* Mutant of ensure_space: the early return also taken at a full budget.   *)
ensure_space_late(c, recent_evict) ==
    LET recent_len == len(c.recent)
        freq_len == len(c.frequent)
    IN  IF recent_len + freq_len <= c.size
        THEN TQOut(c, Unit, FALSE)
        ELSE IF recent_len > 0
                /\ (recent_len > c.recent_size
                    \/ (recent_len = c.recent_size /\ ~recent_evict))
        THEN ensure_space_demote(c)
        ELSE ensure_space_evict(c)

(* Mutant of ensure_space: the tail of frequent is evicted whenever         *)
(* frequent is not empty.                                                  *)
ensure_space_frequent(c, recent_evict) ==
    LET recent_len == len(c.recent)
        freq_len == len(c.frequent)
    IN  IF recent_len + freq_len < c.size
        THEN TQOut(c, Unit, FALSE)
        ELSE IF freq_len = 0 /\ recent_len > 0
        THEN ensure_space_demote(c)
        ELSE ensure_space_evict(c)

ensure_space(c, recent_evict) ==
    LET recent_len == len(c.recent)
        freq_len == len(c.frequent)
    IN  IF recent_len + freq_len < c.size
        THEN TQOut(c, Unit, FALSE)
        ELSE IF recent_len > 0
                /\ (recent_len > c.recent_size
                    \/ (recent_len = c.recent_size /\ ~recent_evict))
        THEN ensure_space_demote(c)
        ELSE ensure_space_evict(c)

(***************************************************************************)
(* TwoQueueCache::put, one operator for each of its four cases.            *)
(***************************************************************************)
put_frequent(c, k, v) ==
    LET r == put(c.frequent, k, v)
    IN  TQOut([c EXCEPT !.frequent = r.e], IF r.panic THEN Panic ELSE Unit, r.panic)

put_promote(c, k) ==
    LET r == remove_and_return_ent(c.recent, k)
        f == put_box(c.frequent, taken(r))
    IN  TQOut([c EXCEPT !.recent = given(r), !.frequent = f.e],
              IF f.panic THEN Panic ELSE Unit, f.panic)

(* Mutant of the ghost case of TwoQueueCache::put: the box taken from      *)
(* ghost is put into recent.                                               *)
put_from_ghost_recent(c, k) ==
    LET s == ensure_space(c, TRUE)
    IN  IF s.panic
        THEN s
        ELSE IF k \notin DOMAIN s.c.recent_evict.map
        THEN TQOut(s.c, Panic, TRUE)
        ELSE LET r == remove_and_return_ent(s.c.recent_evict, k)
                 f == put_box(s.c.recent, taken(r))
             IN  TQOut([s.c EXCEPT !.recent_evict = given(r), !.recent = f.e],
                       IF f.panic THEN Panic ELSE Unit, f.panic)

put_from_ghost(c, k) ==
    LET s == ensure_space(c, TRUE)
    IN  IF s.panic
        THEN s
        ELSE IF k \notin DOMAIN s.c.recent_evict.map
        THEN \* self.recent_evict.map.remove(&key_ref).unwrap() on None
             TQOut(s.c, Panic, TRUE)
        ELSE LET r == remove_and_return_ent(s.c.recent_evict, k)
                 f == put_box(s.c.frequent, taken(r))
             IN  TQOut([s.c EXCEPT !.recent_evict = given(r), !.frequent = f.e],
                       IF f.panic THEN Panic ELSE Unit, f.panic)

put_fresh(c, k, v) ==
    LET s == ensure_space(c, FALSE)
    IN  IF s.panic
        THEN s
        ELSE LET r == put(s.c.recent, k, v)
             IN  TQOut([s.c EXCEPT !.recent = r.e],
                       IF r.panic THEN Panic ELSE Unit, r.panic)

(* Mutant of TwoQueueCache::put: the ghost engine is not consulted.        *)
TwoQueueCache_put_noghost(c, k, v) ==
    IF contains(c.frequent, k)
    THEN put_frequent(c, k, v)
    ELSE IF contains(c.recent, k)
    THEN put_promote(c, k)
    ELSE put_fresh(c, k, v)

(* Mutant of TwoQueueCache::put: a key found in recent is updated there.   *)
TwoQueueCache_put_nopromote(c, k, v) ==
    IF contains(c.frequent, k)
    THEN put_frequent(c, k, v)
    ELSE IF contains(c.recent, k)
    THEN LET r == put(c.recent, k, v)
         IN  TQOut([c EXCEPT !.recent = r.e], IF r.panic THEN Panic ELSE Unit, r.panic)
    ELSE IF k \in DOMAIN c.recent_evict.map
    THEN put_from_ghost(c, k)
    ELSE put_fresh(c, k, v)

TwoQueueCache_put(c, k, v) ==
    IF contains(c.frequent, k)
    THEN put_frequent(c, k, v)
    ELSE IF contains(c.recent, k)
    THEN put_promote(c, k)
    ELSE IF k \in DOMAIN c.recent_evict.map
    THEN put_from_ghost(c, k)
    ELSE put_fresh(c, k, v)

(* Mutant of TwoQueueCache::get: a key found in neither frequent nor       *)
(* recent is looked up in the ghost engine and served from there.          *)
TwoQueueCache_get_ghost(c, k) ==
    LET g == get(c.frequent, k)
    IN  IF g.res # None
        THEN TQOut([c EXCEPT !.frequent = g.e], g.res, FALSE)
        ELSE LET r == remove_and_return_ent(c.recent, k)
             IN  IF r.res = None
                 THEN LET h == get(c.recent_evict, k)
                      IN  TQOut([c EXCEPT !.recent_evict = h.e], h.res, FALSE)
                 ELSE LET f == put_box(c.frequent, taken(r))
                          c1 == [c EXCEPT !.recent = given(r), !.frequent = f.e]
                      IN  IF f.panic
                          THEN TQOut(c1, Panic, TRUE)
                          ELSE TQOut(c1, peek(c1.frequent, k).res, FALSE)

TwoQueueCache_get(c, k) ==
    LET g == get(c.frequent, k)
    IN  IF g.res # None
        THEN TQOut([c EXCEPT !.frequent = g.e], g.res, FALSE)
        ELSE LET r == remove_and_return_ent(c.recent, k)
             IN  IF r.res = None
                 THEN TQOut(c, None, FALSE)
                 ELSE LET f == put_box(c.frequent, taken(r))
                          c1 == [c EXCEPT !.recent = given(r), !.frequent = f.e]
                      IN  IF f.panic
                          THEN TQOut(c1, Panic, TRUE)
                          ELSE TQOut(c1, peek(c1.frequent, k).res, FALSE)

TwoQueueCache_get_mut(c, k) ==
    LET g == get_mut(c.frequent, k)
    IN  IF g.res # None
        THEN TQOut([c EXCEPT !.frequent = g.e], g.res, FALSE)
        ELSE LET r == remove_and_return_ent(c.recent, k)
             IN  IF r.res = None
                 THEN TQOut(c, None, FALSE)
                 ELSE LET f == put_box(c.frequent, taken(r))
                          c1 == [c EXCEPT !.recent = given(r), !.frequent = f.e]
                      IN  IF f.panic
                          THEN TQOut(c1, Panic, TRUE)
                          ELSE TQOut(c1, peek_mut(c1.frequent, k).res, FALSE)

(* Mutant of TwoQueueCache::remove: the ghost engine is not tried.         *)
TwoQueueCache_remove_noghost(c, k) ==
    LET f == remove(c.frequent, k)
    IN  IF f.res # None
        THEN TQOut([c EXCEPT !.frequent = f.e], f.res, FALSE)
        ELSE LET r == remove(c.recent, k)
             IN  TQOut([c EXCEPT !.recent = r.e], r.res, FALSE)

TwoQueueCache_remove(c, k) ==
    LET f == remove(c.frequent, k)
    IN  IF f.res # None
        THEN TQOut([c EXCEPT !.frequent = f.e], f.res, FALSE)
        ELSE LET r == remove(c.recent, k)
             IN  IF r.res # None
                 THEN TQOut([c EXCEPT !.recent = r.e], r.res, FALSE)
                 ELSE LET g == remove(c.recent_evict, k)
                      IN  TQOut([c EXCEPT !.recent_evict = g.e], g.res, FALSE)

(***************************************************************************)
(* Reading the layered cache.                                              *)
(***************************************************************************)
InRecent(c, k) == k \in DOMAIN c.recent.map
InFrequent(c, k) == k \in DOMAIN c.frequent.map
InGhost(c, k) == k \in DOMAIN c.recent_evict.map

Total(c) == len(c.recent) + len(c.frequent)

(* The lengths of the three engines.                                       *)
Lens(c) ==
    [recent |-> len(c.recent), frequent |-> len(c.frequent), ghost |-> len(c.recent_evict)]

Tiers(c, k) ==
    (IF InRecent(c, k) THEN {"RECENT"} ELSE {})
    \cup (IF InFrequent(c, k) THEN {"FREQUENT"} ELSE {})
    \cup (IF InGhost(c, k) THEN {"GHOST"} ELSE {})

(***************************************************************************)
(* Iter, IterMut and Keys.  An iterator holds a remaining length and two   *)
(* raw pointers into the list of the engine it was made from; nothing in   *)
(* its type ties its lifetime to the borrow of the engine.  The model adds *)
(* to the three fields the kind of the iterator and, as history, what next *)
(* and next_back have yielded so far, the pairs of the engine when the     *)
(* iterator was made, how many calls have changed the engine since (at     *)
(* most MaxDirty are followed), and whether a                              *)
(* pull has read through a pointer that is no live entry (wild): from      *)
(* there on the program has no defined behaviour and is followed no        *)
(* further.                                                                *)
(***************************************************************************)
MaxDirty == 1

SomeKey(k) == Res("SomeKey", k, 0)

NoIter ==
    [kind |-> "none", len |-> 0, ptr |-> NULL, end |-> NULL,
     front |-> << >>, back |-> << >>, made |-> << >>, dirty |-> 0, wild |-> FALSE]

NewIter(e, kind, ptr, end) ==
    [kind |-> kind, len |-> len(e), ptr |-> ptr, end |-> end,
     front |-> << >>, back |-> << >>, made |-> pairs(e), dirty |-> 0, wild |-> FALSE]

(* Mutant of iter: the iterator starts from the pointers reversed_iter     *)
(* takes.                                                                  *)
iter_from_tail(e) == NewIter(e, "iter", e.node[TAIL].prev, e.node[HEAD].next)

iter(e) == NewIter(e, "iter", e.node[HEAD].next, e.node[TAIL].prev)

iter_mut(e) == NewIter(e, "iter_mut", e.node[HEAD].next, e.node[TAIL].prev)

reversed_iter(e) == NewIter(e, "reversed_iter", e.node[TAIL].prev, e.node[HEAD].next)

reverse_iter_mut(e) == NewIter(e, "reverse_iter_mut", e.node[TAIL].prev, e.node[HEAD].next)

keys(e) == NewIter(e, "keys", e.node[TAIL].prev, e.node[HEAD].next)

reversed_keys(e) == NewIter(e, "reversed_keys", e.node[TAIL].prev, e.node[HEAD].next)

size_hint(i) == i.len

(* What an iterator of this kind hands out for a pair: Keys maps the pair  *)
(* to its key.                                                             *)
Item(i, key, val) ==
    IF i.kind \in {"keys", "reversed_keys"} THEN SomeKey(key) ELSE SomePair(key, val)

(* A pointer an iterator may read an entry through: a live entry node.     *)
IsEntry(e, n) == n \in DOMAIN e.node /\ n \notin {HEAD, TAIL}

(* What a read of a key and value through a pointer that is not a live     *)
(* entry can give: the uninitialised bytes of a sigil, the bytes of a      *)
(* freed node or of whatever the caller has allocated in its place since,  *)
(* or no bytes at all behind a null pointer.  The build may hand out any   *)
(* pair or stop the program.                                               *)
Garbage == (Keys \cup {UNINIT}) \X (Vals \cup {UNINIT})

IterOut(i, res, panic) == [it |-> i, res |-> res, panic |-> panic]

(* The links that can be read after an entry was read through a pointer    *)
(* that is not a live entry: the link of a sigil, or, through the address  *)
(* of a box that was freed or reused since, whatever that memory holds.    *)
(* The engine may have left its link there (null, a sigil or a box, live   *)
(* or freed), and the caller may have allocated in the freed bytes and     *)
(* written anything, so that the field reads as an address that is none of *)
(* these (UNINIT).                                                         *)
LinkOf(e, n, field) ==
    IF n \in DOMAIN e.node
    THEN {e.node[n][field]}
    ELSE {NULL, HEAD, TAIL, UNINIT} \cup {NodeOf(k) : k \in Keys}

(* Iter::next, IterMut::next and Keys::next: the set of possible outcomes. *)
Iter_next(e, i) ==
    IF i.len = 0
    THEN {IterOut(i, None, FALSE)}
    ELSE IF IsEntry(e, i.ptr)
    THEN LET key == e.node[i.ptr].key
             val == e.node[i.ptr].val
         IN  {IterOut([i EXCEPT !.len = i.len - 1, !.ptr = e.node[i.ptr].next,
                                !.front = Append(i.front, <<key, val>>)],
                      Item(i, key, val), FALSE)}
    ELSE {IterOut([i EXCEPT !.len = i.len - 1, !.ptr = gp[2],
                            !.front = Append(i.front, gp[1]), !.wild = TRUE],
                  Item(i, gp[1][1], gp[1][2]), FALSE) :
              gp \in Garbage \X LinkOf(e, i.ptr, "next")}
         \cup {IterOut(i, Panic, TRUE)}

(* Mutant of Iter::next_back: the remaining length is not decremented.     *)
Iter_next_back_nolen(e, i) ==
    IF i.len = 0
    THEN {IterOut(i, None, FALSE)}
    ELSE IF IsEntry(e, i.end)
    THEN LET key == e.node[i.end].key
             val == e.node[i.end].val
         IN  {IterOut([i EXCEPT !.end = e.node[i.end].prev,
                                !.back = Append(i.back, <<key, val>>)],
                      Item(i, key, val), FALSE)}
    ELSE {IterOut([i EXCEPT !.end = gp[2], !.wild = TRUE],
                  Item(i, gp[1][1], gp[1][2]), FALSE) :
              gp \in Garbage \X LinkOf(e, i.end, "prev")}
         \cup {IterOut(i, Panic, TRUE)}

(* Iter::next_back, IterMut::next_back and Keys::next_back.                *)
Iter_next_back(e, i) ==
    IF i.len = 0
    THEN {IterOut(i, None, FALSE)}
    ELSE IF IsEntry(e, i.end)
    THEN LET key == e.node[i.end].key
             val == e.node[i.end].val
         IN  {IterOut([i EXCEPT !.len = i.len - 1, !.end = e.node[i.end].prev,
                                !.back = Append(i.back, <<key, val>>)],
                      Item(i, key, val), FALSE)}
    ELSE {IterOut([i EXCEPT !.len = i.len - 1, !.end = gp[2],
                            !.back = Append(i.back, gp[1]), !.wild = TRUE],
                  Item(i, gp[1][1], gp[1][2]), FALSE) :
              gp \in Garbage \X LinkOf(e, i.end, "prev")}
         \cup {IterOut(i, Panic, TRUE)}

(***************************************************************************)
(* Ownership of keys and values.  An object is a key or a value that was   *)
(* moved into a call; a tally counts objects, one count per key and per    *)
(* value of the model.                                                     *)
(***************************************************************************)
KeyObj(k) == <<"key", k>>
ValObj(v) == <<"val", v>>
Objs == {KeyObj(k) : k \in Keys \cup 1..MaxGhostKey} \cup {ValObj(v) : v \in Vals}

Tally(seq) == [o \in Objs |-> Cardinality({i \in DOMAIN seq : seq[i] = o})]

Plus(a, b) == [o \in Objs |-> a[o] + b[o]]

PairObjs(r) == <<KeyObj(r.key), ValObj(r.value)>>

(* The objects a call takes by value: put(k: K, v: V); every other call    *)
(* takes references or a capacity.                                         *)
moved_in(call) ==
    IF call.name = "put" THEN Tally(<<KeyObj(call.k), ValObj(call.v)>>) ELSE Tally(<< >>)

(* The objects a result gives to the caller by value: PutResult<K, V> of   *)
(* put, Option<V> of remove, Option<(K, V)> of remove_lru; the lookups     *)
(* return references.                                                      *)
handed_back(name, r) ==
    IF name = "put" /\ r.tag = "Update" THEN Tally(<<ValObj(r.value)>>)
    ELSE IF name = "put" /\ r.tag = "Evicted" THEN Tally(PairObjs(r))
    ELSE IF name = "remove" /\ r.tag = "Some" THEN Tally(<<ValObj(r.value)>>)
    ELSE IF name = "remove_lru" /\ r.tag = "SomePair" THEN Tally(PairObjs(r))
    ELSE Tally(<< >>)

(* resize discards what each remove_lru of its loop returns.               *)
RECURSIVE resize_dropped(_, _)
resize_dropped(e, c) ==
    IF len(e) > c
    THEN LET r == remove_lru(e)
         IN  IF r.panic \/ r.res = None
             THEN << >>
             ELSE PairObjs(r.res) \o resize_dropped(r.e, c)
    ELSE << >>

(* purge discards what each remove_lru returns, until one returns None.    *)
RECURSIVE purge_dropped(_)
purge_dropped(e) ==
    LET r == remove_lru(e)
    IN  IF r.panic \/ r.res = None
        THEN << >>
        ELSE PairObjs(r.res) \o purge_dropped(r.e)

(* The objects a call on engine e destroys, r being what the call yields:  *)
(* put drops its key argument when the key was present (only the values    *)
(* are swapped) and both arguments when it unwinds; remove drops the key   *)
(* of the node in place; resize and purge drop what they discard.          *)
dropped_by(name, k, v, e, r) ==
    IF name = "put" /\ r.panic THEN Tally(<<KeyObj(k), ValObj(v)>>)
    ELSE IF name = "put" /\ r.res.tag = "Update" THEN Tally(<<KeyObj(k)>>)
    ELSE IF name = "remove" /\ r.res.tag = "Some"
    THEN Tally(<<KeyObj(e.node[e.map[k]].key)>>)
    ELSE IF name = "resize" /\ k # e.cap THEN Tally(resize_dropped(e, k))
    ELSE IF name = "purge" THEN Tally(purge_dropped(e))
    ELSE Tally(<< >>)

(* Drop for RawLRU: the key and the value of every box of the map are      *)
(* dropped in place; freeing the boxes and the sigils drops nothing more.  *)
RawLRU_drop(e) ==
    [o \in Objs |-> Cardinality({k \in DOMAIN e.map : KeyObj(e.node[e.map[k]].key) = o})
                    + Cardinality({k \in DOMAIN e.map : ValObj(e.node[e.map[k]].val) = o})]

(* What put_box drops: the tail of a full engine, key and value.           *)
put_box_dropped(e) ==
    IF len(e) >= cap(e)
    THEN LET r == remove_last(e)
         IN  IF r.panic \/ r.res = None THEN << >> ELSE PairObjs(r.res)
    ELSE << >>

(* What ensure_space drops: the tail the ghost engine gives up for the     *)
(* demoted box, or the pair that frequent.remove_lru() returns and the     *)
(* statement discards.                                                     *)
ensure_space_dropped(c, recent_evict) ==
    LET recent_len == len(c.recent)
        freq_len == len(c.frequent)
    IN  IF recent_len + freq_len < c.size
        THEN << >>
        ELSE IF recent_len > 0
                /\ (recent_len > c.recent_size
                    \/ (recent_len = c.recent_size /\ ~recent_evict))
        THEN LET r == remove_lru_in(c.recent)
             IN  IF r.panic \/ r.res = None THEN << >> ELSE put_box_dropped(c.recent_evict)
        ELSE LET r == remove_lru(c.frequent)
             IN  IF r.panic \/ r.res = None THEN << >> ELSE PairObjs(r.res)

(* What TwoQueueCache::put drops.  In frequent: what frequent.put drops    *)
(* and the PutResult it returns, which is discarded.  In recent and in     *)
(* ghost: the arguments k and v, which are not used, and what put_box      *)
(* drops; for ghost also what ensure_space drops.  Otherwise: what         *)
(* ensure_space drops, what recent.put drops and the PutResult discarded.  *)
TwoQueueCache_put_dropped(c, k, v) ==
    LET args == Tally(<<KeyObj(k), ValObj(v)>>)
    IN  IF contains(c.frequent, k)
        THEN LET r == put(c.frequent, k, v)
             IN  Plus(dropped_by("put", k, v, c.frequent, r), handed_back("put", r.res))
        ELSE IF contains(c.recent, k)
        THEN Plus(args, Tally(put_box_dropped(c.frequent)))
        ELSE IF k \in DOMAIN c.recent_evict.map
        THEN LET s == ensure_space(c, TRUE)
             IN  Plus(Plus(Tally(ensure_space_dropped(c, TRUE)), args),
                      IF ~s.panic /\ k \in DOMAIN s.c.recent_evict.map
                      THEN Tally(put_box_dropped(s.c.frequent))
                      ELSE Tally(<< >>))
        ELSE LET s == ensure_space(c, FALSE)
                 r == put(s.c.recent, k, v)
             IN  Plus(Tally(ensure_space_dropped(c, FALSE)),
                      IF s.panic
                      THEN args
                      ELSE Plus(dropped_by("put", k, v, s.c.recent, r),
                                handed_back("put", r.res)))

(* The objects a call on the layered cache c destroys.  put: see above.    *)
(* get and get_mut: what put_box drops when the key is promoted from       *)
(* recent.  remove: what remove drops in the first engine that holds the   *)
(* key.  The constructor drops nothing.                                    *)
tq_dropped(call, c) ==
    LET k == call.k
    IN  IF call.name = "put" THEN TwoQueueCache_put_dropped(c, k, call.v)
        ELSE IF call.name \in {"get", "get_mut"}
        THEN IF ~contains(c.frequent, k) /\ contains(c.recent, k)
             THEN Tally(put_box_dropped(c.frequent))
             ELSE Tally(<< >>)
        ELSE IF call.name = "remove"
        THEN IF contains(c.frequent, k)
             THEN dropped_by("remove", k, 0, c.frequent, remove(c.frequent, k))
             ELSE IF contains(c.recent, k)
             THEN dropped_by("remove", k, 0, c.recent, remove(c.recent, k))
             ELSE IF contains(c.recent_evict, k)
             THEN dropped_by("remove", k, 0, c.recent_evict, remove(c.recent_evict, k))
             ELSE Tally(<< >>)
        ELSE Tally(<< >>)

(* The objects an engine holds: the keys and values of the entries of its  *)
(* list.                                                                   *)
Held(e) ==
    LET p == pairs(e)
    IN  [o \in Objs |-> Cardinality({i \in 1..Len(p) : KeyObj(p[i][1]) = o})
                        + Cardinality({i \in 1..Len(p) : ValObj(p[i][2]) = o})]

(***************************************************************************)
(* The state machines.                                                     *)
(*   lru      the single-tier engine under test                            *)
(*   tq       the layered cache under test                                 *)
(*   op       the last call: its name and arguments                        *)
(*   res      what the last call returned                                  *)
(*   evicted  the notifications the last call fired, oldest first          *)
(*   panicked TRUE once a call has panicked or the process was killed      *)
(*   resized  TRUE once resize has been called on lru                      *)
(* and two history variables, which no operation reads:                    *)
(*   recency  the keys present in lru, by last access through put, get,    *)
(*            get_mut, get_lru or get_lru_mut, latest first                *)
(*   fill     the puts made on lru since its construction, for as long as  *)
(*            they were puts of pairwise distinct keys with no other call  *)
(*            in between, and the number of notifications they fired       *)
(*   was      the tiers of tq that held the key of the last call on tq     *)
(*            when the call was made                                       *)
(*   before   the lengths of the three engines of tq when the last call   *)
(*            on tq was made                                               *)
(* and the iterator over lru that the program holds, if any:               *)
(*   it       its fields and history, NoIter when there is none            *)
(* and what the last call destroyed:                                      *)
(*   dropped  the tally of the keys and values the last call dropped      *)
(***************************************************************************)
VARIABLES lru, tq, op, res, evicted, panicked, resized, recency, fill, was, before, it, dropped

vars == <<lru, tq, op, res, evicted, panicked, resized, recency, fill, was, before, it, dropped>>

(* The key a call accesses: its argument for put, get and get_mut, the     *)
(* key it returns for get_lru and get_lru_mut, none for every other call.  *)
Accessed(name, k, r) ==
    IF name \in {"put", "get", "get_mut"} THEN {k}
    ELSE IF name \in {"get_lru", "get_lru_mut"} /\ r.res.tag = "SomePair" THEN {r.res.key}
    ELSE {}

(* recency after a call: the accessed key first if it is present after     *)
(* the call, then the other keys still present, in their former order.     *)
Touch(rec, acc, alive) ==
    LET keep(x) == x \in alive /\ x \notin acc
        front == IF acc \cap alive = {} THEN << >> ELSE <<CHOOSE x \in acc : TRUE>>
    IN  front \o SelectSeq(rec, keep)

NoFill == [pure |-> FALSE, puts |-> << >>, fired |-> 0]

Filled(f, name, k, v, r) ==
    IF f.pure /\ name = "put" /\ k \notin {f.puts[i][1] : i \in 1..Len(f.puts)} /\ ~r.panic
    THEN [pure |-> TRUE, puts |-> Append(f.puts, <<k, v>>), fired |-> f.fired + Len(r.ev)]
    ELSE NoFill

Call(name, k, v) == [name |-> name, k |-> k, v |-> v, rr |-> 0, gr |-> 0]

Init ==
    /\ lru = Unbuilt
    /\ tq = UnbuiltTQ
    /\ op = Call("init", 0, 0)
    /\ res = Unit
    /\ evicted = << >>
    /\ panicked = FALSE
    /\ resized = FALSE
    /\ recency = << >>
    /\ fill = NoFill
    /\ was = {}
    /\ before = Lens(UnbuiltTQ)
    /\ it = NoIter
    /\ dropped = Tally(<< >>)

(* ---- single-tier engine ---- *)
LNew(name, c, r) ==
    /\ ~Built(lru) /\ ~panicked
    /\ lru' = r.e /\ res' = r.res /\ evicted' = r.ev /\ panicked' = r.panic
    /\ op' = Call(name, c, 0)
    /\ recency' = << >>
    /\ fill' = IF Built(r.e) THEN [NoFill EXCEPT !.pure = TRUE] ELSE NoFill
    /\ dropped' = Tally(<< >>)
    /\ UNCHANGED <<tq, resized, was, before, it>>

LApply(name, k, v, r) ==
    /\ Built(lru) /\ ~panicked /\ ~it.wild /\ it.dirty < MaxDirty
    /\ lru' = r.e /\ evicted' = r.ev /\ panicked' = r.panic
    \* an undefined read ends in a panic, which unwinds and drops the
    \* arguments of the call, or in the death of the process, which drops
    \* nothing
    /\ \E out \in IF r.res.tag = "undefined" THEN {Panic, Killed} ELSE {r.res} :
          /\ res' = out
          /\ dropped' = IF out = Killed THEN Tally(<< >>)
                        ELSE dropped_by(name, k, v, lru, r)
    /\ op' = Call(name, k, v)
    /\ recency' = Touch(recency, Accessed(name, k, r), DOMAIN r.e.map)
    /\ fill' = Filled(fill, name, k, v, r)
    /\ it' = IF it.kind # "none" /\ r.e # lru THEN [it EXCEPT !.dirty = it.dirty + 1] ELSE it
    /\ UNCHANGED <<tq, was, before>>

DoNew == \E c \in Caps : LNew("new", c, RawLRU_new(c))
DoWithHasher == \E c \in Caps : LNew("with_hasher", c, with_hasher(c))
DoWithOnEvictCb == \E c \in Caps : LNew("with_on_evict_cb", c, with_on_evict_cb(c))
DoWithHasherAndOnEvictCb ==
    \E c \in Caps : LNew("with_hasher_and_on_evict_cb", c, with_hasher_and_on_evict_cb(c))
DoPut == \E k \in Keys, v \in Vals : LApply("put", k, v, put(lru, k, v)) /\ UNCHANGED resized
DoGet == \E k \in Keys : LApply("get", k, 0, get(lru, k)) /\ UNCHANGED resized
DoGetMut == \E k \in Keys : LApply("get_mut", k, 0, get_mut(lru, k)) /\ UNCHANGED resized
DoGetLru == LApply("get_lru", 0, 0, get_lru(lru)) /\ UNCHANGED resized
DoPeek == \E k \in Keys : LApply("peek", k, 0, peek(lru, k)) /\ UNCHANGED resized
DoPeekMut == \E k \in Keys : LApply("peek_mut", k, 0, peek_mut(lru, k)) /\ UNCHANGED resized
DoPeekLru == LApply("peek_lru", 0, 0, peek_lru(lru)) /\ UNCHANGED resized
DoGetLruMut == LApply("get_lru_mut", 0, 0, get_lru_mut(lru)) /\ UNCHANGED resized
DoPeekLruMut == LApply("peek_lru_mut", 0, 0, peek_lru_mut(lru)) /\ UNCHANGED resized
DoContains ==
    \E k \in Keys : LApply("contains", k, 0, Out(lru, Bool(contains(lru, k)), << >>, FALSE))
                    /\ UNCHANGED resized
DoLen == LApply("len", 0, 0, Out(lru, Count(len(lru)), << >>, FALSE)) /\ UNCHANGED resized
DoIsEmpty == LApply("is_empty", 0, 0, Out(lru, Bool(is_empty(lru)), << >>, FALSE)) /\ UNCHANGED resized
DoCap == LApply("cap", 0, 0, Out(lru, Count(cap(lru)), << >>, FALSE)) /\ UNCHANGED resized
DoRemove == \E k \in Keys : LApply("remove", k, 0, remove(lru, k)) /\ UNCHANGED resized
DoRemoveLru == LApply("remove_lru", 0, 0, remove_lru(lru)) /\ UNCHANGED resized
DoPurge == LApply("purge", 0, 0, purge(lru)) /\ UNCHANGED resized
DoResize == \E c \in Caps : LApply("resize", c, 0, resize(lru, c)) /\ resized' = TRUE

Next ==
    \/ DoNew \/ DoWithHasher \/ DoWithOnEvictCb \/ DoWithHasherAndOnEvictCb
    \/ DoPut \/ DoGet \/ DoGetMut \/ DoGetLru \/ DoGetLruMut
    \/ DoPeek \/ DoPeekMut \/ DoPeekLru \/ DoPeekLruMut \/ DoContains
    \/ DoLen \/ DoIsEmpty \/ DoCap
    \/ DoRemove \/ DoRemoveLru \/ DoPurge \/ DoResize

Spec == Init /\ [][Next]_vars

(* ---- the engine is dropped ---- *)
(* Dropping the engine runs Drop for RawLRU; it also runs when a panic     *)
(* unwinds through the owner of the engine, and never once the process was *)
(* killed.  No callback is fired.                                          *)
DoDrop ==
    /\ Built(lru) /\ res # Killed
    /\ lru' = Unbuilt
    /\ dropped' = RawLRU_drop(lru)
    /\ op' = Call("drop", 0, 0) /\ res' = Unit /\ evicted' = << >>
    /\ recency' = << >> /\ fill' = NoFill
    /\ UNCHANGED <<tq, panicked, resized, was, before, it>>

NextDrop ==
    \/ DoNew \/ DoWithHasher \/ DoWithOnEvictCb \/ DoWithHasherAndOnEvictCb
    \/ DoPut \/ DoGet \/ DoGetMut \/ DoGetLru \/ DoGetLruMut
    \/ DoPeek \/ DoPeekMut \/ DoPeekLru \/ DoPeekLruMut \/ DoContains
    \/ DoLen \/ DoIsEmpty \/ DoCap
    \/ DoRemove \/ DoRemoveLru \/ DoPurge \/ DoResize
    \/ DoDrop

SpecDrop == Init /\ [][NextDrop]_vars

(* ---- iterators over the single-tier engine ---- *)
ItMake(name, i) ==
    /\ Built(lru) /\ ~panicked /\ it.kind = "none"
    /\ it' = i
    /\ op' = Call(name, 0, 0) /\ res' = Unit /\ evicted' = << >>
    /\ dropped' = Tally(<< >>)
    /\ UNCHANGED <<lru, tq, panicked, resized, recency, fill, was, before>>

ItPull(name, outs) ==
    /\ ~panicked /\ it.kind # "none" /\ ~it.wild
    /\ \E o \in outs :
          /\ it' = o.it /\ res' = o.res /\ panicked' = o.panic
    /\ op' = Call(name, 0, 0) /\ evicted' = << >>
    /\ dropped' = Tally(<< >>)
    /\ UNCHANGED <<lru, tq, resized, recency, fill, was, before>>

ItIter == ItMake("iter", iter(lru))
ItIterMut == ItMake("iter_mut", iter_mut(lru))
ItReversedIter == ItMake("reversed_iter", reversed_iter(lru))
ItReverseIterMut == ItMake("reverse_iter_mut", reverse_iter_mut(lru))
ItKeys == ItMake("keys", keys(lru))
ItReversedKeys == ItMake("reversed_keys", reversed_keys(lru))
ItNext == ItPull("next", Iter_next(lru, it))
ItNextBack == ItPull("next_back", Iter_next_back(lru, it))
ItDrop ==
    /\ ~panicked /\ it.kind # "none" /\ ~it.wild
    /\ it' = NoIter
    /\ op' = Call("drop_iter", 0, 0) /\ res' = Unit /\ evicted' = << >>
    /\ dropped' = Tally(<< >>)
    /\ UNCHANGED <<lru, tq, panicked, resized, recency, fill, was, before>>

(* Traversals of an engine that is left alone while the iterator is held.  *)
QuietPut == it.kind = "none" /\ DoPut
QuietRemove == it.kind = "none" /\ DoRemove

NextIter ==
    \/ DoNew \/ QuietPut \/ QuietRemove
    \/ ItIter \/ ItIterMut \/ ItReversedIter \/ ItReverseIterMut
    \/ ItKeys \/ ItReversedKeys
    \/ ItNext \/ ItNextBack \/ ItDrop

SpecIter == Init /\ [][NextIter]_vars

(* Engine calls made while an iter() or iter_mut() iterator is held.       *)
NextBorrow ==
    \/ DoNew \/ DoPut \/ DoRemove
    \/ ItIter \/ ItIterMut
    \/ ItNext \/ ItNextBack \/ ItDrop

SpecBorrow == Init /\ [][NextBorrow]_vars

(* ---- layered cache ---- *)
TQApply(call, r) ==
    /\ tq' = r.c /\ res' = r.res /\ panicked' = r.panic
    /\ op' = call
    /\ was' = IF BuiltTQ(tq) THEN Tiers(tq, call.k) ELSE {}
    /\ before' = Lens(tq)
    /\ dropped' = tq_dropped(call, tq)
    /\ UNCHANGED <<lru, evicted, resized, recency, fill, it>>

TQNew ==
    /\ ~BuiltTQ(tq) /\ ~panicked
    /\ \E size \in 0..MaxSize, rr \in Ratios, gr \in Ratios :
          TQApply([Call("with_2q_parameters", size, 0) EXCEPT !.rr = rr, !.gr = gr],
                  with_2q_parameters(size, rr, gr))

(* The calls on a built layered cache, with keys drawn from K and values   *)
(* from V.                                                                 *)
TQPut(K, V) ==
    /\ BuiltTQ(tq) /\ ~panicked
    /\ \E k \in K, v \in V : TQApply(Call("put", k, v), TwoQueueCache_put(tq, k, v))

TQGet(K) ==
    /\ BuiltTQ(tq) /\ ~panicked
    /\ \E k \in K : TQApply(Call("get", k, 0), TwoQueueCache_get(tq, k))

TQGetMut(K) ==
    /\ BuiltTQ(tq) /\ ~panicked
    /\ \E k \in K : TQApply(Call("get_mut", k, 0), TwoQueueCache_get_mut(tq, k))

TQRemove(K) ==
    /\ BuiltTQ(tq) /\ ~panicked
    /\ \E k \in K : TQApply(Call("remove", k, 0), TwoQueueCache_remove(tq, k))

NextTQ ==
    TQNew \/ TQPut(Keys, Vals) \/ TQGet(Keys) \/ TQGetMut(Keys) \/ TQRemove(Keys)

SpecTQ == Init /\ [][NextTQ]_vars

(* The same calls with more keys and one value: the tiers move keys and    *)
(* never look at a value, and with MaxGhostKey keys a put of a key that is *)
(* in no tier can meet a full budget and a ghost engine of capacity        *)
(* MaxSize that is full.                                                   *)
NextGhost ==
    \/ TQNew
    \/ TQPut(1..MaxGhostKey, {1})
    \/ TQGet(1..MaxGhostKey)
    \/ TQGetMut(1..MaxGhostKey)
    \/ TQRemove(1..MaxGhostKey)

SpecGhost == Init /\ [][NextGhost]_vars

(***************************************************************************)
(* C1 (as stated): on a layered cache, after every call that completes,    *)
(* recent.len() + frequent.len() < size.                                   *)
(***************************************************************************)
C1_StrictBudget == (BuiltTQ(tq) /\ ~panicked) => Total(tq) < tq.size

(***************************************************************************)
(* C1 (amended): after every call, recent.len() + frequent.len() <= size   *)
(* on a cache whose recent_size is below size, and on any cache it never   *)
(* exceeds size + 1.                                                       *)
(***************************************************************************)
C1_Budget ==
    BuiltTQ(tq) =>
        /\ Total(tq) <= tq.size + 1
        /\ (tq.recent_size < tq.size => Total(tq) <= tq.size)

(* A put has filled the budget exactly, on a cache with recent_size < size *)
C1_Witness ==
    /\ BuiltTQ(tq) /\ ~panicked
    /\ op.name = "put"
    /\ tq.recent_size < tq.size
    /\ Total(tq) = tq.size
    /\ len(tq.frequent) > 0 /\ len(tq.recent) > 0

(***************************************************************************)
(* C2: for every constructed TwoQueueCache (any size > 0, any ratios in    *)
(* [0, 1]), after every put, get, get_mut and remove,                      *)
(* recent.len() + frequent.len() <= size.                                  *)
(***************************************************************************)
C2_WithinSize == BuiltTQ(tq) => Total(tq) <= tq.size

(***************************************************************************)
(* C3: a single-tier engine built with capacity c >= 1 and never resized   *)
(* has len() <= c after every call, and once it is full a further put      *)
(* leaves len() at exactly c.                                              *)
(***************************************************************************)
C3_CapacityBound ==
    /\ []((Built(lru) /\ ~resized) => (cap(lru) >= 1 /\ len(lru) <= cap(lru)))
    /\ [][(Built(lru) /\ ~resized' /\ op'.name = "put" /\ len(lru) = cap(lru))
            => (len(lru') = cap(lru') /\ cap(lru') = cap(lru))]_vars

(* A put into a full, never resized engine of capacity >= 2 has evicted    *)
C3_Witness ==
    /\ Built(lru) /\ ~resized
    /\ op.name = "put" /\ res.tag = "Evicted"
    /\ cap(lru) >= 2 /\ len(lru) = cap(lru)

(***************************************************************************)
(* C4: in a layered cache every key is in at most one of the tiers recent, *)
(* frequent, ghost after every call.                                       *)
(***************************************************************************)
C4_OneTier == \A k \in Keys : Cardinality(Tiers(tq, k)) <= 1

(* All three tiers hold a key at once: a demotion into ghost and a         *)
(* promotion into frequent have both happened                              *)
C4_Witness ==
    /\ BuiltTQ(tq) /\ op.name = "put"
    /\ len(tq.recent) > 0 /\ len(tq.frequent) > 0 /\ len(tq.recent_evict) > 0
    /\ InFrequent(tq, op.k)

(***************************************************************************)
(* C5: in every reachable state of a layered cache, put(k, v) of a key k   *)
(* that is in GHOST completes without panic and leaves k in FREQUENT and   *)
(* no longer in ghost.                                                     *)
(***************************************************************************)
C5_GhostPutPromotes ==
    [][(BuiltTQ(tq) /\ op'.name = "put" /\ InGhost(tq, op'.k))
         => (~panicked' /\ InFrequent(tq', op'.k) /\ ~InGhost(tq', op'.k))]_vars

(***************************************************************************)
(* C6: on a constructed single-tier engine no operation fails, whatever    *)
(* sequence of put, get, peek, remove, remove_lru, purge and               *)
(* resize(new_cap), new_cap >= 0, came before; the head sigil is never     *)
(* read as an entry.                                                       *)
(***************************************************************************)
C6_NoFailure == Built(lru) => (~panicked /\ res # Panic)

(***************************************************************************)
(* C7: with_2q_parameters(size, rr, gr) returns Err(InvalidSize(size))     *)
(* when size = 0, else Err(InvalidRecentRatio(rr)) when rr is outside      *)
(* [0, 1], else Err(InvalidGhostRatio(gr)) when gr is outside [0, 1], and  *)
(* otherwise succeeds with recent_size = floor(size * rr) and ghost        *)
(* capacity floor(size * gr).                                              *)
(***************************************************************************)
C7_Constructor ==
    op.name = "with_2q_parameters" =>
        IF op.k = 0
        THEN res = InvalidSize(op.k) /\ ~BuiltTQ(tq)
        ELSE IF op.rr < 0 \/ op.rr > 4
        THEN res = InvalidRecentRatio(op.rr) /\ ~BuiltTQ(tq)
        ELSE IF op.gr < 0 \/ op.gr > 4
        THEN res = InvalidGhostRatio(op.gr) /\ ~BuiltTQ(tq)
        ELSE /\ res = Ok /\ BuiltTQ(tq)
             /\ tq.size = op.k
             /\ 4 * tq.recent_size <= op.k * op.rr
             /\ op.k * op.rr < 4 * (tq.recent_size + 1)
             /\ 4 * cap(tq.recent_evict) <= op.k * op.gr
             /\ op.k * op.gr < 4 * (cap(tq.recent_evict) + 1)

(***************************************************************************)
(* C8: each of the four single-tier constructors returns                   *)
(* Err(InvalidSize(0)) for capacity 0 and, for a capacity c > 0, an empty  *)
(* engine with len() = 0, is_empty() and cap() = c.                        *)
(***************************************************************************)
C8_Constructors ==
    op.name \in {"new", "with_hasher", "with_on_evict_cb", "with_hasher_and_on_evict_cb"} =>
        IF op.k = 0
        THEN res = InvalidSize(0) /\ ~Built(lru)
        ELSE /\ res = Ok /\ Built(lru)
             /\ len(lru) = 0 /\ is_empty(lru) /\ cap(lru) = op.k
             /\ order(lru) = << >>

(* The largest capacity has been asked of the constructor with both a      *)
(* hasher and a callback                                                   *)
C8_Witness ==
    /\ op.name = "with_hasher_and_on_evict_cb" /\ op.k = MaxCap
    /\ Built(lru) /\ cap(lru) = MaxCap /\ lru.on_evict

(***************************************************************************)
(* C9: single-tier put(k, v) returns Update(old) iff k is present, Put iff *)
(* k is absent and len() < cap, Evicted{key, value} iff k is absent and    *)
(* len() = cap; the evicted pair is the least recently used entry, k ends  *)
(* as the most recently used entry and the evicted key is absent.          *)
(***************************************************************************)
C9_PutResult ==
    [][(Built(lru) /\ op'.name = "put") =>
         LET k == op'.k
             present == contains(lru, k)
             lruKey == lru.node[lru.node[TAIL].prev].key
         IN  /\ (res'.tag = "Update") <=> present
             /\ (res'.tag = "Put") <=> (~present /\ len(lru) < cap(lru))
             /\ (res'.tag = "Evicted") <=> (~present /\ len(lru) = cap(lru))
             /\ res'.tag \in {"Update", "Put", "Evicted"}
             /\ res'.tag = "Update" => res'.value = valueOf(lru, k)
             /\ res'.tag = "Evicted" =>
                    /\ res'.key = lruKey
                    /\ res'.value = valueOf(lru, lruKey)
                    /\ ~contains(lru', res'.key)
             /\ contains(lru', k) /\ order(lru')[1] = k
             /\ valueOf(lru', k) = op'.v]_vars

(***************************************************************************)
(* C10: single-tier put(k, v) of a key already present leaves len() and    *)
(* the key set unchanged, returns Update(old_v), fires no notification,    *)
(* evicts nothing even at len() = cap, makes k the most recently used      *)
(* entry, and a following get(k) returns Some(v).                          *)
(***************************************************************************)
C10_UpdateInPlace ==
    [][(Built(lru) /\ op'.name = "put" /\ contains(lru, op'.k)) =>
         /\ ~panicked'
         /\ len(lru') = len(lru)
         /\ DOMAIN lru'.map = DOMAIN lru.map
         /\ res' = PutResult_Update(valueOf(lru, op'.k))
         /\ evicted' = << >>
         /\ order(lru')[1] = op'.k
         /\ get(lru', op'.k).res = Some(op'.v)]_vars

(* An update at full capacity, on an engine with a callback, that replaced *)
(* a different value and moved the key to the front                        *)
C10_Witness ==
    /\ Built(lru) /\ lru.on_evict
    /\ op.name = "put" /\ res.tag = "Update" /\ res.value # op.v
    /\ cap(lru) >= 2 /\ len(lru) = cap(lru)
    /\ order(lru)[1] = op.k

(***************************************************************************)
(* C11: c+1 puts of distinct keys k0..kc into a fresh engine of capacity   *)
(* c, with no other call in between, return Put for the first c and        *)
(* Evicted{key: k0, value: v0} for the last; afterwards get(k0) is None    *)
(* and every other inserted key is present with its value.                 *)
(***************************************************************************)
C11_FifoUnderPressure ==
    (Built(lru) /\ fill.pure /\ fill.puts # << >>) =>
        LET n == Len(fill.puts)
            c == cap(lru)
            k0 == fill.puts[1][1]
            v0 == fill.puts[1][2]
        IN  /\ ~panicked
            /\ n <= c =>
                  /\ res = PutResult_Put
                  /\ \A i \in 1..n : get(lru, fill.puts[i][1]).res = Some(fill.puts[i][2])
            /\ n = c + 1 =>
                  /\ res = PutResult_Evicted(k0, v0)
                  /\ get(lru, k0).res = None
                  /\ ~contains(lru, k0)
                  /\ len(lru) = c
                  /\ \A i \in 2..n : get(lru, fill.puts[i][1]).res = Some(fill.puts[i][2])

(* The third put of a distinct key into a fresh engine of capacity 2 has   *)
(* evicted                                                                 *)
C11_Witness ==
    /\ Built(lru) /\ fill.pure
    /\ cap(lru) = 2 /\ Len(fill.puts) = 3
    /\ op.name = "put" /\ res.tag = "Evicted"

(***************************************************************************)
(* C12: after a get(k) or get_mut(k) that finds k, k is the most recently  *)
(* used entry (first in forward iteration) and all other entries keep      *)
(* their relative order; get or get_mut of an absent key returns None and  *)
(* changes neither membership nor order.                                   *)
(***************************************************************************)
C12_ReadPromotes ==
    [][(Built(lru) /\ op'.name \in {"get", "get_mut"}) =>
         LET k == op'.k
         IN  IF contains(lru, k)
             THEN /\ res' = Some(valueOf(lru, k))
                  /\ order(lru')[1] = k
                  /\ Without(order(lru'), k) = Without(order(lru), k)
                  /\ pairs(lru') = <<<<k, valueOf(lru, k)>>>> \o
                        SelectSeq(pairs(lru), LAMBDA p : p[1] # k)
                  /\ DOMAIN lru'.map = DOMAIN lru.map
             ELSE /\ res' = None
                  /\ DOMAIN lru'.map = DOMAIN lru.map
                  /\ order(lru') = order(lru)
                  /\ lru' = lru]_vars

(* A get_mut has found a key among three and it is now first, ahead of the *)
(* key accessed before it                                                  *)
C12_Witness ==
    /\ Built(lru) /\ len(lru) = 3
    /\ op.name = "get_mut" /\ res.tag = "Some"
    /\ order(lru)[1] = op.k
    /\ recency = order(lru)

(***************************************************************************)
(* C13: peek, peek_mut, peek_lru, contains, len, is_empty and cap leave    *)
(* the key set and the recency order unchanged, so they never change which *)
(* entry the next capacity eviction or remove_lru selects; they fire no    *)
(* notification.                                                           *)
(***************************************************************************)
C13_Observers ==
    [][(Built(lru) /\ op'.name \in {"peek", "peek_mut", "peek_lru", "contains",
                                      "len", "is_empty", "cap"}) =>
         /\ ~panicked'
         /\ DOMAIN lru'.map = DOMAIN lru.map
         /\ order(lru') = order(lru)
         /\ pairs(lru') = pairs(lru)
         /\ cap(lru') = cap(lru)
         /\ remove_lru(lru').res = remove_lru(lru).res
         /\ \A k \in Keys : put(lru', k, 1).res = put(lru, k, 1).res
         /\ evicted' = << >>
         /\ op'.name \in {"peek", "peek_mut"} =>
               res' = IF contains(lru, op'.k) THEN Some(valueOf(lru, op'.k)) ELSE None
         /\ op'.name = "contains" => res' = Bool(op'.k \in DOMAIN lru.map)
         /\ op'.name = "len" => res' = Count(Len(order(lru)))
         /\ op'.name = "is_empty" => res' = Bool(order(lru) = << >>)]_vars

(* A peek has found the least recently used of three entries, and it is    *)
(* still the one remove_lru would take                                     *)
C13_Witness ==
    /\ Built(lru) /\ len(lru) = 3 /\ cap(lru) = 3
    /\ op.name = "peek" /\ res.tag = "Some"
    /\ order(lru)[3] = op.k
    /\ remove_lru(lru).res.key = op.k

(***************************************************************************)
(* C14: on a non-empty engine get_lru returns the least recently used pair *)
(* and makes it the most recently used entry, so that with two or more     *)
(* entries a following peek_lru returns a different key; peek_lru returns  *)
(* the same least recently used pair and leaves the order alone; both      *)
(* return None on an empty engine.                                         *)
(***************************************************************************)
C14_LruReads ==
    [][(Built(lru) /\ op'.name \in {"get_lru", "peek_lru"}) =>
         LET n == Len(order(lru))
             last == pairs(lru)[n]
         IN  /\ ~panicked'
             /\ evicted' = << >>
             /\ n = 0 => (res' = None /\ lru' = lru)
             /\ (n > 0 /\ op'.name = "get_lru") =>
                   /\ res' = SomePair(last[1], last[2])
                   /\ pairs(lru') = <<last>> \o SubSeq(pairs(lru), 1, n - 1)
                   /\ DOMAIN lru'.map = DOMAIN lru.map
                   /\ n >= 2 => peek_lru(lru').res.key # last[1]
             /\ (n > 0 /\ op'.name = "peek_lru") =>
                   /\ res' = SomePair(last[1], last[2])
                   /\ pairs(lru') = pairs(lru)
                   /\ lru' = lru
                   /\ peek_lru(lru').res = res']_vars

(* A get_lru on three entries has returned the former last entry, which is *)
(* now first                                                               *)
C14_Witness ==
    /\ Built(lru) /\ len(lru) = 3
    /\ op.name = "get_lru" /\ res.tag = "SomePair"
    /\ order(lru)[1] = res.key
    /\ peek_lru(lru).res.key # res.key

(***************************************************************************)
(* C15: remove(k) of a present key returns its value, fires the            *)
(* notification exactly once with (k, value), decreases len() by one,      *)
(* makes k absent and keeps the relative order of every other entry (a     *)
(* later put goes to the head, forward iteration never yields k); remove   *)
(* of an absent key returns None, fires nothing and changes nothing.       *)
(***************************************************************************)
C15_Remove ==
    [][(Built(lru) /\ op'.name = "remove") =>
         LET k == op'.k
         IN  IF contains(lru, k)
             THEN /\ ~panicked'
                  /\ res' = Some(valueOf(lru, k))
                  /\ lru.on_evict => evicted' = << <<k, valueOf(lru, k)>> >>
                  /\ ~lru.on_evict => evicted' = << >>
                  /\ len(lru') = len(lru) - 1
                  /\ ~contains(lru', k)
                  /\ NodeOf(k) \notin DOMAIN lru'.node
                  /\ pairs(lru') = SelectSeq(pairs(lru), LAMBDA p : p[1] # k)
                  /\ \A j \in Keys : order(put(lru', j, 1).e) = <<j>> \o Without(order(lru'), j)
             ELSE /\ ~panicked'
                  /\ res' = None
                  /\ evicted' = << >>
                  /\ lru' = lru]_vars

(* A remove has taken one of three entries out of an engine with a         *)
(* notifier, which was told once; both a smaller and a larger key remain   *)
C15_Witness ==
    /\ Built(lru) /\ lru.on_evict
    /\ op.name = "remove" /\ res.tag = "Some"
    /\ evicted = << <<op.k, res.value>> >>
    /\ len(lru) = 2
    /\ \E i \in 1..2 : recency[i] < op.k
    /\ \E i \in 1..2 : recency[i] > op.k

(***************************************************************************)
(* C16: remove_lru removes and returns the tail (least recently used)      *)
(* entry and fires the notification once, and returns None without effect  *)
(* on an empty engine; called repeatedly with no other call it returns all *)
(* entries in order of increasing last access (last put or get), then None *)
(* forever.                                                                *)
(***************************************************************************)
C16_RemoveLru ==
    /\ [][(Built(lru) /\ op'.name = "remove_lru") =>
            LET n == Len(order(lru))
                last == pairs(lru)[n]
            IN  /\ ~panicked'
                /\ n = 0 => (res' = None /\ evicted' = << >> /\ lru' = lru)
                /\ n > 0 =>
                      /\ res' = SomePair(last[1], last[2])
                      /\ lru.on_evict => evicted' = <<last>>
                      /\ ~lru.on_evict => evicted' = << >>
                      /\ pairs(lru') = SubSeq(pairs(lru), 1, n - 1)
                      /\ DOMAIN lru'.map = DOMAIN lru.map \ {last[1]}
                      /\ NodeOf(last[1]) \notin DOMAIN lru'.node]_vars
    /\ [](Built(lru) =>
            LET d == Drain(lru, MaxKey + 1)
            IN  /\ Len(d.out) = len(lru)
                /\ \A i \in 1..Len(d.out) :
                      /\ d.out[i].tag = "SomePair"
                      /\ d.out[i].key = Reverse(recency)[i]
                      /\ d.out[i].value = valueOf(lru, d.out[i].key)
                /\ len(d.e) = 0
                /\ remove_lru(d.e) = Out(d.e, None, << >>, FALSE))

(* A remove_lru has taken the least recently accessed of three entries    *)
(* out of an engine with a notifier, which was told once                   *)
C16_Witness ==
    /\ Built(lru) /\ lru.on_evict
    /\ op.name = "remove_lru" /\ res.tag = "SomePair"
    /\ evicted = << <<res.key, res.value>> >>
    /\ len(lru) = 2
    /\ recency # <<1, 2>> /\ recency # <<2, 1>>

(***************************************************************************)
(* C17: resize(new_cap) with new_cap < len() returns len() - new_cap,      *)
(* removes exactly the len() - new_cap least recently used entries in      *)
(* LRU-to-MRU order, one notification each, keeps the new_cap most         *)
(* recently used entries in their order, and sets cap() to new_cap.        *)
(***************************************************************************)
C17_ResizeShrink ==
    [][(Built(lru) /\ op'.name = "resize" /\ op'.k < len(lru)) =>
         LET n == len(lru)
             c == op'.k
             gone == Reverse(SubSeq(pairs(lru), c + 1, n))
         IN  /\ ~panicked'
             /\ res' = Count(n - c)
             /\ lru.on_evict => evicted' = gone
             /\ ~lru.on_evict => evicted' = << >>
             /\ pairs(lru') = SubSeq(pairs(lru), 1, c)
             /\ DOMAIN lru'.map = {order(lru)[i] : i \in 1..c}
             /\ \A i \in 1..Len(gone) : NodeOf(gone[i][1]) \notin DOMAIN lru'.node
             /\ len(lru') = c
             /\ cap(lru') = c]_vars

(* A resize to 1 has evicted the two least recently used of three entries  *)
(* and told the notifier of both, oldest first                             *)
C17_Witness ==
    /\ Built(lru) /\ lru.on_evict
    /\ op.name = "resize" /\ op.k = 1
    /\ res = Count(2) /\ Len(evicted) = 2
    /\ evicted[1][1] # evicted[2][1]
    /\ len(lru) = 1 /\ cap(lru) = 1

(***************************************************************************)
(* C18: resize(new_cap) with new_cap = cap() changes nothing and returns   *)
(* 0; with new_cap >= len() it evicts nothing, returns 0, keeps every      *)
(* entry and its order and sets cap() to new_cap, so that the following    *)
(* puts of new keys return Put until len() reaches new_cap.                *)
(***************************************************************************)
C18_ResizeNoEvict ==
    [][(Built(lru) /\ op'.name = "resize") =>
         /\ op'.k = cap(lru) =>
               (~panicked' /\ res' = Count(0) /\ evicted' = << >> /\ lru' = lru)
         /\ op'.k >= len(lru) =>
               /\ ~panicked'
               /\ res' = Count(0)
               /\ evicted' = << >>
               /\ pairs(lru') = pairs(lru)
               /\ DOMAIN lru'.map = DOMAIN lru.map
               /\ cap(lru') = op'.k
               /\ PutsUntilFull(lru', Keys \ DOMAIN lru'.map)]_vars

(* A resize to the largest capacity has kept the single entry of an engine *)
(* that now has room for more                                              *)
C18_Witness ==
    /\ Built(lru) /\ resized
    /\ op.name = "resize" /\ op.k = MaxCap
    /\ res = Count(0)
    /\ len(lru) = 1 /\ cap(lru) = MaxCap
    /\ put(lru, CHOOSE j \in Keys : ~contains(lru, j), 1).res = PutResult_Put

(***************************************************************************)
(* C19: purge() empties the engine (len() = 0, peek_lru() = None, cap()    *)
(* unchanged) and the notification is invoked exactly once for each entry  *)
(* that was present, in tail-to-head (LRU-to-MRU) order.                   *)
(***************************************************************************)
C19_Purge ==
    [][(Built(lru) /\ op'.name = "purge") =>
         /\ ~panicked'
         /\ res' = Unit
         /\ len(lru') = 0 /\ is_empty(lru')
         /\ order(lru') = << >>
         /\ peek_lru(lru').res = None
         /\ cap(lru') = cap(lru)
         /\ DOMAIN lru'.node = {HEAD, TAIL}
         /\ lru.on_evict => evicted' = Reverse(pairs(lru))
         /\ ~lru.on_evict => evicted' = << >>]_vars

(* A purge of three entries has told the notifier of all three, the least  *)
(* recently accessed first                                                 *)
C19_Witness ==
    /\ Built(lru) /\ lru.on_evict
    /\ op.name = "purge" /\ res = Unit
    /\ Len(evicted) = 3
    /\ len(lru) = 0 /\ cap(lru) = 3
    /\ evicted[1][1] > evicted[2][1]

(***************************************************************************)
(* C20: on an engine with a notifier, the notification is invoked exactly  *)
(* once, with the departing (key, value), for each entry that leaves       *)
(* through remove, remove_lru, capacity eviction in put, resize-shrink or  *)
(* purge, and never by a put that returns Put or Update, nor by get, peek  *)
(* or contains; hence n puts of distinct keys into an engine of capacity c *)
(* produce exactly max(0, n - c) notifications.                            *)
(***************************************************************************)
C20_NotifyOnce ==
    /\ [][(Built(lru) /\ lru.on_evict) =>
            /\ {evicted'[i] : i \in 1..Len(evicted')} = Departed(lru, lru')
            /\ Len(evicted') = Cardinality(Departed(lru, lru'))
            /\ Len(evicted') = len(lru) - Cardinality(DOMAIN lru.map \cap DOMAIN lru'.map)
            /\ res'.tag \in {"Put", "Update"} => evicted' = << >>
            /\ res'.tag = "Evicted" => evicted' = << <<res'.key, res'.value>> >>
            /\ op'.name \in {"get", "get_mut", "get_lru", "get_lru_mut", "peek",
                               "peek_mut", "peek_lru", "peek_lru_mut", "contains",
                               "len", "is_empty", "cap"}
                  => evicted' = << >>
            /\ (op'.name \in {"remove", "remove_lru"} /\ res' # None) => Len(evicted') = 1]_vars
    /\ []((Built(lru) /\ lru.on_evict /\ fill.pure) =>
            fill.fired = IF Len(fill.puts) > cap(lru)
                         THEN Len(fill.puts) - cap(lru) ELSE 0)

(* Three puts of distinct keys into a fresh engine of capacity 1 with a    *)
(* notifier have fired two notifications                                   *)
C20_Witness ==
    /\ Built(lru) /\ lru.on_evict
    /\ fill.pure /\ Len(fill.puts) = 3
    /\ cap(lru) = 1 /\ fill.fired = 2
    /\ op.name = "put" /\ Len(evicted) = 1

(***************************************************************************)
(* C21: on a layered cache with room (recent.len() + frequent.len() <      *)
(* size) put of an ABSENT key places it in recent only; a second put of    *)
(* the same key moves it from recent to frequent (recent.len() one less,   *)
(* frequent.len() one more); any further put of that key leaves it in      *)
(* frequent with both lengths unchanged.  The second put is taken in any   *)
(* state within the budget, which the first put with room leaves.          *)
(***************************************************************************)
C21_Promotion ==
    [][(BuiltTQ(tq) /\ op'.name = "put") =>
         LET k == op'.k
         IN  /\ (Tiers(tq, k) = {} /\ Total(tq) < tq.size) =>
                   /\ ~panicked'
                   /\ Tiers(tq', k) = {"RECENT"}
                   /\ len(tq'.recent) = len(tq.recent) + 1
                   /\ len(tq'.frequent) = len(tq.frequent)
                   /\ Total(tq') <= tq.size
                   /\ order(tq'.recent)[1] = k
                   /\ valueOf(tq'.recent, k) = op'.v
             /\ (InRecent(tq, k) /\ Total(tq) <= tq.size) =>
                   /\ ~panicked'
                   /\ Tiers(tq', k) = {"FREQUENT"}
                   /\ len(tq'.recent) = len(tq.recent) - 1
                   /\ len(tq'.frequent) = len(tq.frequent) + 1
             /\ InFrequent(tq, k) =>
                   /\ ~panicked'
                   /\ Tiers(tq', k) = {"FREQUENT"}
                   /\ len(tq'.recent) = len(tq.recent)
                   /\ len(tq'.frequent) = len(tq.frequent)]_vars

(* A put has moved its key from recent to frequent, next to another key    *)
(* that stays in recent                                                    *)
C21_Witness ==
    /\ BuiltTQ(tq) /\ ~panicked
    /\ op.name = "put" /\ was = {"RECENT"}
    /\ Tiers(tq, op.k) = {"FREQUENT"}
    /\ len(tq.recent) = 1 /\ len(tq.frequent) = 1

(***************************************************************************)
(* C22: layered get(k) returns the stored value and leaves k in FREQUENT   *)
(* as the most recently used entry of frequent, both when k was in         *)
(* FREQUENT and when k was in RECENT; in the RECENT case recent.len()      *)
(* drops by 1, frequent.len() grows by 1, no other entry is evicted or     *)
(* moved, and ghost is unchanged.                                          *)
(***************************************************************************)
C22_GetPromotes ==
    [][(BuiltTQ(tq) /\ op'.name \in {"get", "get_mut"}
          /\ (InFrequent(tq, op'.k) \/ InRecent(tq, op'.k))) =>
         LET k == op'.k
             stored == IF InFrequent(tq, k) THEN valueOf(tq.frequent, k)
                       ELSE valueOf(tq.recent, k)
         IN  /\ ~panicked'
             /\ res' = Some(stored)
             /\ Tiers(tq', k) = {"FREQUENT"}
             /\ order(tq'.frequent) = <<k>> \o Without(order(tq.frequent), k)
             /\ order(tq'.recent) = Without(order(tq.recent), k)
             /\ tq'.recent_evict = tq.recent_evict
             /\ \A j \in Keys \ {k} : Tiers(tq', j) = Tiers(tq, j)
             /\ InRecent(tq, k) =>
                   /\ len(tq'.recent) = len(tq.recent) - 1
                   /\ len(tq'.frequent) = len(tq.frequent) + 1]_vars

(***************************************************************************)
(* C23: layered get(k) and get_mut(k) for a key in GHOST or ABSENT return  *)
(* None and leave the membership and the recency order of recent,          *)
(* frequent and ghost unchanged: a ghost hit is never served and never     *)
(* promotes.                                                               *)
(***************************************************************************)
C23_GhostMiss ==
    [][(BuiltTQ(tq) /\ op'.name \in {"get", "get_mut"}
          /\ ~InFrequent(tq, op'.k) /\ ~InRecent(tq, op'.k)) =>
         /\ ~panicked'
         /\ res' = None
         /\ order(tq'.recent) = order(tq.recent)
         /\ order(tq'.frequent) = order(tq.frequent)
         /\ order(tq'.recent_evict) = order(tq.recent_evict)
         /\ \A j \in Keys : Tiers(tq', j) = Tiers(tq, j)
         /\ tq' = tq]_vars

(* A get of a key held by the ghost engine has returned None and the key   *)
(* is still in ghost only, with other keys in recent and in frequent       *)
C23_Witness ==
    /\ BuiltTQ(tq) /\ ~panicked
    /\ op.name = "get" /\ was = {"GHOST"} /\ res = None
    /\ Tiers(tq, op.k) = {"GHOST"}
    /\ len(tq.recent) = 1 /\ len(tq.frequent) = 1

(***************************************************************************)
(* C24: layered remove(k) looks in frequent, then recent, then ghost and   *)
(* removes k from the first tier that holds it, returning that tier's      *)
(* value; afterwards k is ABSENT in all three tiers and no other key       *)
(* changes tier; when k is ABSENT it returns None and changes nothing.     *)
(***************************************************************************)
C24_Remove ==
    [][(BuiltTQ(tq) /\ op'.name = "remove") =>
         LET k == op'.k
             first == IF InFrequent(tq, k) THEN tq.frequent
                      ELSE IF InRecent(tq, k) THEN tq.recent
                      ELSE tq.recent_evict
         IN  IF Tiers(tq, k) = {}
             THEN ~panicked' /\ res' = None /\ tq' = tq
             ELSE /\ ~panicked'
                  /\ res' = Some(valueOf(first, k))
                  /\ Tiers(tq', k) = {}
                  /\ \A j \in Keys \ {k} : Tiers(tq', j) = Tiers(tq, j)
                  /\ order(tq'.frequent) = Without(order(tq.frequent), k)
                  /\ order(tq'.recent) = Without(order(tq.recent), k)
                  /\ order(tq'.recent_evict) = Without(order(tq.recent_evict), k)
                  /\ tq'.size = tq.size /\ tq'.recent_size = tq.recent_size]_vars

(* A remove has taken a key out of the ghost engine and returned the value *)
(* kept there, while recent and frequent hold other keys                   *)
C24_Witness ==
    /\ BuiltTQ(tq) /\ ~panicked
    /\ op.name = "remove" /\ was = {"GHOST"} /\ res.tag = "Some"
    /\ Tiers(tq, op.k) = {}
    /\ len(tq.recent) = 1 /\ len(tq.frequent) = 1

(***************************************************************************)
(* C25: the forward iterators iter() and iter_mut() yield every entry      *)
(* exactly once from most to least recently used, report an exact          *)
(* remaining length that starts at len() and decreases by one per pull,    *)
(* and return None once the length is 0 and on every later pull.           *)
(***************************************************************************)
C25_ForwardIter ==
    (it.kind \in {"iter", "iter_mut"} /\ it.back = << >>) =>
        LET n == Len(it.front)
        IN  /\ ~panicked /\ ~it.wild
            /\ n <= len(lru)
            /\ it.front = SubSeq(pairs(lru), 1, n)
            /\ size_hint(it) = len(lru) - n
            /\ (op.name = "next" /\ res # None) =>
                  (n > 0 /\ res = SomePair(it.front[n][1], it.front[n][2]))
            /\ (op.name = "next" /\ res = None) => (n = len(lru) /\ size_hint(it) = 0)
            /\ size_hint(it) = 0 => Iter_next(lru, it) = {IterOut(it, None, FALSE)}
            /\ size_hint(it) > 0 =>
                  \A o \in Iter_next(lru, it) :
                      ~o.panic /\ o.res # None /\ size_hint(o.it) = size_hint(it) - 1

(* An iter_mut() over three entries has been pulled four times: it yielded *)
(* the three entries and then None                                         *)
C25_Witness ==
    /\ it.kind = "iter_mut" /\ it.back = << >>
    /\ len(lru) = 3 /\ Len(it.front) = 3
    /\ op.name = "next" /\ res = None

(***************************************************************************)
(* C26: for iter() and iter_mut(), any interleaving of next and next_back  *)
(* yields each entry of the engine exactly once overall, next taking from  *)
(* the most recently used end and next_back from the least recently used   *)
(* end; the two ends never cross or repeat an entry, and after len() pulls *)
(* in total both next and next_back return None.                           *)
(***************************************************************************)
C26_DoubleEnded ==
    it.kind \in {"iter", "iter_mut"} =>
        LET n == len(lru)
            f == Len(it.front)
            b == Len(it.back)
        IN  /\ ~panicked /\ ~it.wild
            /\ f + b <= n
            /\ it.front = SubSeq(pairs(lru), 1, f)
            /\ it.back = Reverse(SubSeq(pairs(lru), n - b + 1, n))
            /\ size_hint(it) = n - f - b
            /\ (op.name \in {"next", "next_back"} /\ res = None) => f + b = n
            /\ (op.name = "next" /\ res # None) =>
                  (f > 0 /\ res = SomePair(it.front[f][1], it.front[f][2]))
            /\ (op.name = "next_back" /\ res # None) =>
                  (b > 0 /\ res = SomePair(it.back[b][1], it.back[b][2]))
            /\ f + b = n =>
                  /\ Iter_next(lru, it) = {IterOut(it, None, FALSE)}
                  /\ Iter_next_back(lru, it) = {IterOut(it, None, FALSE)}

(* An iter() over three entries gave one entry to next and two to          *)
(* next_back, and the next_back after that returned None                   *)
C26_Witness ==
    /\ it.kind = "iter"
    /\ len(lru) = 3 /\ Len(it.front) = 1 /\ Len(it.back) = 2
    /\ op.name = "next_back" /\ res = None

(***************************************************************************)
(* C27: the reverse iterators reversed_iter() and reverse_iter_mut() over  *)
(* an engine with n entries yield, through next, all n entries exactly     *)
(* once from least to most recently used, never yielding or dereferencing  *)
(* a sentinel position.                                                    *)
(***************************************************************************)
C27_ReverseIter ==
    (it.kind \in {"reversed_iter", "reverse_iter_mut"} /\ it.back = << >>) =>
        LET n == Len(it.front)
        IN  /\ ~panicked /\ ~it.wild
            /\ n <= len(lru)
            /\ it.front = SubSeq(Reverse(pairs(lru)), 1, n)
            /\ size_hint(it) = len(lru) - n
            /\ size_hint(it) > 0 => IsEntry(lru, it.ptr)

(***************************************************************************)
(* C28: keys() visits all keys of the engine from most to least recently   *)
(* used and reversed_keys() visits them from least to most recently used,  *)
(* each yielding every key exactly once: after j pulls through next the    *)
(* keys yielded are the first j keys of that order, the remaining length   *)
(* is len() - j, and a pull that is still owed stands on an entry.         *)
(***************************************************************************)
C28_Keys ==
    (it.kind \in {"keys", "reversed_keys"} /\ it.back = << >>) =>
        LET n == Len(it.front)
            yielded == [j \in 1..n |-> it.front[j][1]]
            wanted == IF it.kind = "keys" THEN order(lru) ELSE Reverse(order(lru))
        IN  /\ ~panicked /\ ~it.wild
            /\ n <= len(lru)
            /\ yielded = SubSeq(wanted, 1, n)
            /\ (op.name = "next" /\ res # None) => (n > 0 /\ res = SomeKey(yielded[n]))
            /\ size_hint(it) = len(lru) - n
            /\ size_hint(it) > 0 => IsEntry(lru, it.ptr)

(***************************************************************************)
(* C29: while an iterator over an engine is alive no put or remove (nor    *)
(* any other call that changes the engine) is performed on that engine, so *)
(* the engine is still as it was when the iterator was made and the        *)
(* iterator yields only entries of that engine, never the contents of a    *)
(* removed, evicted or relinked entry.                                     *)
(***************************************************************************)
C29_Borrowed ==
    it.kind # "none" =>
        /\ it.dirty = 0
        /\ it.made = pairs(lru)
        /\ ~panicked /\ ~it.wild
        /\ \A j \in 1..Len(it.front) : \E m \in 1..Len(it.made) : it.front[j] = it.made[m]
        /\ \A j \in 1..Len(it.back) : \E m \in 1..Len(it.made) : it.back[j] = it.made[m]

(***************************************************************************)
(* C30: every key and every value moved into an engine is destroyed or     *)
(* handed back to the caller exactly once by the time the engine is        *)
(* dropped.  Step by step: what the engine held before a call together     *)
(* with what the call took by value is exactly what the engine holds       *)
(* after it together with what the call handed back and what it dropped,   *)
(* for every constructor, put, lookup, remove, remove_lru, resize, purge   *)
(* and for the final drop, after which the engine holds nothing.           *)
(***************************************************************************)
C30_NoLeakNoDoubleDrop ==
    [][ /\ Plus(Held(lru), moved_in(op')) =
             Plus(Plus(Held(lru'), handed_back(op'.name, res')), dropped')
        /\ op'.name = "drop" => Held(lru') = Tally(<< >>) ]_vars

(***************************************************************************)
(* C31: after every operation on an engine, the entries reached by walking *)
(* the list from the head to the tail are exactly the entries of the key   *)
(* mapping, the list is as long as the mapping is large, each key occurs   *)
(* once, and the predecessor of the tail is the least recently used entry, *)
(* or the head sentinel when the engine is empty.                          *)
(***************************************************************************)
C31_ListMatchesMap ==
    Built(lru) =>
        LET o == order(lru)
            n == Len(o)
        IN  /\ {o[i] : i \in 1..n} = DOMAIN lru.map
            /\ n = Cardinality(DOMAIN lru.map)
            /\ \A i, j \in 1..n : o[i] = o[j] => i = j
            /\ \A k \in DOMAIN lru.map : lru.node[lru.map[k]].key = k
            /\ DOMAIN lru.node = {HEAD, TAIL} \cup {lru.map[k] : k \in DOMAIN lru.map}
            /\ n = 0 => lru.node[TAIL].prev = HEAD
            /\ n > 0 =>
                  /\ lru.node[TAIL].prev = lru.map[o[n]]
                  /\ Len(recency) = n
                  /\ o[n] = recency[n]

(* A get found its key in an engine of three entries and moved it to the   *)
(* front: the least recently used entry is another one                     *)
C31_Witness ==
    /\ op.name = "get" /\ res # None
    /\ len(lru) = 3
    /\ lru.node[TAIL].prev # lru.map[op.k]

(***************************************************************************)
(* C32: ensure_space(from_ghost), as put calls it for a key that is in     *)
(* neither recent nor frequent (from_ghost iff the key is in ghost):       *)
(* when recent.len() + frequent.len() < size it changes nothing; otherwise *)
(* exactly one entry leaves recent and frequent, so that the sum is below  *)
(* size on return: the tail of recent moves into ghost iff recent is not   *)
(* empty and (recent.len() > recent_size or (recent.len() = recent_size    *)
(* and not from_ghost)), and in every other case the tail of frequent is   *)
(* evicted and is in no tier afterwards.                                   *)
(***************************************************************************)
C32_EnsureSpace ==
    (BuiltTQ(tq) /\ ~panicked) =>
        \A k \in Keys :
            (~InRecent(tq, k) /\ ~InFrequent(tq, k)) =>
                LET from_ghost == InGhost(tq, k)
                    s == ensure_space(tq, from_ghost)
                    rl == len(tq.recent)
                    demote == rl > 0 /\ (rl > tq.recent_size
                                         \/ (rl = tq.recent_size /\ ~from_ghost))
                IN  /\ ~s.panic
                    /\ Total(tq) < tq.size => s.c = tq
                    /\ Total(tq) >= tq.size =>
                          /\ Total(s.c) = Total(tq) - 1
                          /\ Total(s.c) < tq.size
                          /\ demote =>
                                LET t == order(tq.recent)[rl]
                                IN  /\ order(s.c.recent) = SubSeq(order(tq.recent), 1, rl - 1)
                                    /\ s.c.frequent = tq.frequent
                                    /\ order(s.c.recent_evict)[1] = t
                          /\ ~demote =>
                                LET fl == len(tq.frequent)
                                IN  /\ fl > 0
                                    /\ order(s.c.frequent) = SubSeq(order(tq.frequent), 1, fl - 1)
                                    /\ Tiers(s.c, order(tq.frequent)[fl]) = {}
                                    /\ s.c.recent = tq.recent
                                    /\ s.c.recent_evict = tq.recent_evict

(***************************************************************************)
(* C33: in a layered cache ghost.len() <= floor(size * ghost_ratio) holds  *)
(* after every operation: the ghost engine is built with that capacity,    *)
(* the capacity never changes and the length never exceeds it.  When a put *)
(* demotes the tail of recent into a full ghost engine, exactly the tail   *)
(* of ghost, its least recently demoted entry, is dropped and is in no     *)
(* tier afterwards, and the demoted key becomes the first entry of ghost.  *)
(***************************************************************************)
C33_GhostBound ==
    /\ [](BuiltTQ(tq) =>
            /\ len(tq.recent_evict) <= cap(tq.recent_evict)
            /\ op.name = "with_2q_parameters" =>
                  cap(tq.recent_evict) = floor_mul(op.k, op.gr))
    /\ [][ BuiltTQ(tq) =>
            /\ cap(tq'.recent_evict) = cap(tq.recent_evict)
            /\ LET k == op'.k
                   rl == len(tq.recent)
                   gl == len(tq.recent_evict)
                   demote == rl > 0 /\ (rl > tq.recent_size
                                        \/ (rl = tq.recent_size /\ ~InGhost(tq, k)))
               IN  (/\ op'.name = "put"
                    /\ ~InRecent(tq, k) /\ ~InFrequent(tq, k)
                    /\ Total(tq) >= tq.size /\ demote
                    /\ gl = cap(tq.recent_evict)) =>
                       LET t == order(tq.recent)[rl]
                           d == order(tq.recent_evict)[gl]
                           kept == SubSeq(order(tq.recent_evict), 1, gl - 1)
                       IN  /\ order(tq'.recent_evict) = Without(<<t>> \o kept, k)
                           /\ order(tq'.recent_evict)[1] = t
                           /\ Tiers(tq', d) = {}
                           /\ len(tq'.recent_evict) <= gl ]_vars

(* A put of a key that was in no tier met a full budget of 2 and a ghost   *)
(* engine of capacity 2 holding two keys: frequent kept its length, so the *)
(* tail of recent was demoted, the older of the two ghost keys was dropped *)
(* and ghost holds two keys again, the demoted one before the younger one. *)
C33_Witness ==
    /\ op.name = "put" /\ was = {} /\ ~panicked
    /\ tq.size = 2 /\ cap(tq.recent_evict) = 2
    /\ before.ghost = 2 /\ before.recent >= 1
    /\ before.recent + before.frequent >= 2
    /\ len(tq.frequent) = before.frequent
    /\ len(tq.recent) = before.recent
    /\ len(tq.recent_evict) = 2

(***************************************************************************)
(* C34: a put of a key that is in no tier, made while recent is not empty  *)
(* and recent.len() >= recent_size, never removes an entry from frequent:  *)
(* the frequent engine is left as it was, and when the budget is full      *)
(* (recent.len() + frequent.len() >= size) the tail of recent is demoted   *)
(* to ghost instead.  So a burst of such puts leaves the membership and    *)
(* the order of frequent unchanged.                                        *)
(***************************************************************************)
C34_BurstSparesFrequent ==
    [][ LET k == op'.k
            rl == len(tq.recent)
        IN  (/\ BuiltTQ(tq) /\ op'.name = "put"
             /\ Tiers(tq, k) = {}
             /\ rl > 0 /\ rl >= tq.recent_size) =>
                /\ ~panicked'
                /\ tq'.frequent = tq.frequent
                /\ order(tq'.frequent) = order(tq.frequent)
                /\ InRecent(tq', k)
                /\ Total(tq) >= tq.size =>
                      LET t == order(tq.recent)[rl]
                      IN  /\ ~InRecent(tq', t)
                          /\ InGhost(tq', t)
                          /\ order(tq'.recent) = <<k>> \o SubSeq(order(tq.recent), 1, rl - 1) ]_vars

(* A put of an absent key met a full budget of 2 with one entry in recent  *)
(* and one in frequent: recent's entry was demoted and frequent still      *)
(* holds its entry                                                         *)
C34_Witness ==
    /\ op.name = "put" /\ was = {} /\ ~panicked
    /\ tq.size = 2
    /\ before.recent = 1 /\ before.frequent = 1 /\ tq.recent_size <= 1
    /\ len(tq.frequent) = 1 /\ len(tq.recent) = 1 /\ len(tq.recent_evict) = 1

(***************************************************************************)
(* C35: in every behaviour of the layered cache the tier of a key changes  *)
(* only along these edges: ABSENT to RECENT (put of the key), RECENT to    *)
(* FREQUENT (put, get or get_mut of the key), RECENT to GHOST (demotion    *)
(* during a put of another key), GHOST to FREQUENT (put of the key), and   *)
(* any tier to ABSENT (remove of the key from any tier, eviction from     *)
(* frequent during a put, get or get_mut, overflow of ghost during a put). *)
(* A key never enters FREQUENT from ABSENT, never enters GHOST from        *)
(* FREQUENT or ABSENT, and never enters RECENT from FREQUENT or GHOST.     *)
(***************************************************************************)
C35_TierEdges ==
    [][ BuiltTQ(tq) =>
          \A j \in Keys :
              LET a == Tiers(tq, j)
                  b == Tiers(tq', j)
                  own == op'.k = j
              IN  \/ b = a
                  \/ b = {} /\ own /\ op'.name = "remove"
                  \/ a = {"FREQUENT"} /\ b = {} /\ op'.name \in {"put", "get", "get_mut"}
                  \/ a = {"GHOST"} /\ b = {} /\ op'.name = "put"
                  \/ a = {} /\ b = {"RECENT"} /\ own /\ op'.name = "put"
                  \/ a = {"RECENT"} /\ b = {"FREQUENT"} /\ own
                        /\ op'.name \in {"put", "get", "get_mut"}
                  \/ a = {"RECENT"} /\ b = {"GHOST"} /\ ~own /\ op'.name = "put"
                  \/ a = {"GHOST"} /\ b = {"FREQUENT"} /\ own /\ op'.name = "put" ]_vars

(* A put of a ghost key met a full budget: the key went from GHOST to      *)
(* FREQUENT while the tail of recent was demoted, so ghost is as long as   *)
(* before                                                                  *)
C35_Witness ==
    /\ op.name = "put" /\ was = {"GHOST"} /\ ~panicked
    /\ Tiers(tq, op.k) = {"FREQUENT"}
    /\ before.recent + before.frequent = tq.size
    /\ len(tq.recent) = before.recent - 1
    /\ len(tq.recent_evict) = before.ghost

(***************************************************************************)
(* C36: on a layered cache, immediately after put(k, v) completes, get(k)  *)
(* returns Some(v), the value just written, whichever tier (none, RECENT,  *)
(* FREQUENT or GHOST) held k before the put.                               *)
(***************************************************************************)
C36_ReadYourWrite ==
    (BuiltTQ(tq) /\ op.name = "put" /\ ~panicked) =>
        LET g == TwoQueueCache_get(tq, op.k)
        IN  ~g.panic /\ g.res = Some(op.v)

(***************************************************************************)
(* C37: on a layered cache put(k, v) changes the tier or presence of at    *)
(* most one key other than k, and a put of a key that is in FREQUENT or in *)
(* RECENT changes no other key at all; a put of a key already in FREQUENT  *)
(* only replaces its value and makes it the first entry of frequent.       *)
(***************************************************************************)
C37_PutFrame ==
    [][ (BuiltTQ(tq) /\ op'.name = "put") =>
          LET k == op'.k
              changed == {j \in Keys \ {k} : Tiers(tq', j) # Tiers(tq, j)}
          IN  /\ Cardinality(changed) <= 1
              /\ (InFrequent(tq, k) \/ InRecent(tq, k)) => changed = {}
              /\ InFrequent(tq, k) =>
                    /\ tq'.recent = tq.recent
                    /\ tq'.recent_evict = tq.recent_evict
                    /\ order(tq'.frequent) = <<k>> \o Without(order(tq.frequent), k)
                    /\ valueOf(tq'.frequent, k) = op'.v
                    /\ \A j \in DOMAIN tq.frequent.map \ {k} :
                          valueOf(tq'.frequent, j) = valueOf(tq.frequent, j) ]_vars

(***************************************************************************)
(* C38: in a layered cache the capacity of the recent and of the frequent  *)
(* engine (= size) is never the cause of an eviction: in every reachable   *)
(* state an insertion into recent (put of a key in no tier, after its      *)
(* ensure_space) or into frequent (promotion of a key of recent by put,    *)
(* get or get_mut, or of a ghost key by put, after its ensure_space) finds *)
(* that engine with len() < size.                                          *)
(***************************************************************************)
C38_EngineCapUnused ==
    (BuiltTQ(tq) /\ ~panicked) =>
        /\ cap(tq.recent) = tq.size /\ cap(tq.frequent) = tq.size
        /\ \A k \in Keys :
              /\ (InRecent(tq, k) /\ ~InFrequent(tq, k)) => len(tq.frequent) < tq.size
              /\ (InGhost(tq, k) /\ ~InRecent(tq, k) /\ ~InFrequent(tq, k)) =>
                    LET s == ensure_space(tq, TRUE)
                    IN  (~s.panic /\ InGhost(s.c, k)) => len(s.c.frequent) < tq.size
              /\ Tiers(tq, k) = {} =>
                    LET s == ensure_space(tq, FALSE)
                    IN  ~s.panic => len(s.c.recent) < tq.size

====
